---- MODULE Spec2Model ----
(***************************************************************************)
(* A model of agend's SupervisorAgent (src/agend/supervisor.py): the Todo  *)
(* Store (TodoList), the response parser (_parse_response and              *)
(* _extract_json_from_text) and check_completion with its merge into the   *)
(* Todo Store.                                                             *)
(*                                                                         *)
(* A text (a Python str) is a sequence of one-character strings.  The two  *)
(* fixed phrases the code puts into results (the manual-review marker and  *)
(* the execution-failure prefix) and the two fixed summaries are each      *)
(* written as one unit of text, so that no reply over the alphabet of the  *)
(* model can spell them by accident unless it uses that unit.              *)
(***************************************************************************)
EXTENDS Integers, Sequences, FiniteSets, TLC

VARIABLES
    todo_list,      \* SupervisorAgent._todo_list: None, or Some(TodoList)
    todo_file,      \* the todo file on disk: None (absent), or Some(its record)
    result_files,   \* the results directory: iteration -> None or Some(record)
    pc,             \* position of the caller inside check_completion
    call,           \* the arguments of the check_completion call in progress
    response,       \* the AgentResponse the agent call returned
    json_str,       \* the local json_str of the parser: None or Some(text)
    result,         \* the SupervisorResult built by _parse_response
    returned,       \* what check_completion handed back: None or Some(result)
    checks,         \* the number of check_completion calls begun so far
    last,           \* the last Todo Store operation: its name, arguments,
                    \* return value and the items before it
    runner,         \* the TaskRunner driving the loop: None, or Some(state)
    cli             \* the aiaim process around the runner: None, or Some(state)

vars == <<todo_list, todo_file, result_files, pc, call, response, json_str,
          result, returned, checks, last, runner, cli>>

-----------------------------------------------------------------------------
(* Optional values (Python's None) and small helpers.                      *)

None == <<>>
Some(x) == <<x>>
IsSome(o) == o /= <<>>
The(o) == o[1]

Min(a, b) == IF a <= b THEN a ELSE b

Q == "\""
NL == "\n"

Digits == {"0", "1", "2", "3", "4", "5", "6", "7", "8", "9"}

\* Whitespace of the alphabet: what json's WHITESPACE, the regex class \s
\* and str.strip() all skip.
IsWs(c) == c \in {" ", NL}

\* The least of a set of positions, or 0 when there is none: where a scan
\* upwards stops when the set is that of the positions it stops at.
First(positions) ==
    IF positions = {} THEN 0
    ELSE CHOOSE j \in positions : \A k \in positions : j <= k

\* The index of the first character at or after i that is no whitespace
\* (Len(s) + 1 when there is none).
SkipWs(s, i) ==
    IF i > Len(s) THEN i
    ELSE First({j \in i..(Len(s) + 1) : j = Len(s) + 1 \/ ~IsWs(s[j])})

\* The index of the last character at or before i that is no whitespace
\* (0 when there is none).
SkipWsBack(s, i) ==
    IF \A j \in 1..i : IsWs(s[j]) THEN 0
    ELSE CHOOSE j \in 1..i :
             ~IsWs(s[j]) /\ \A k \in (j + 1)..i : IsWs(s[k])

\* str.strip()
Strip(s) == SubSeq(s, SkipWs(s, 1), SkipWsBack(s, Len(s)))

\* s[i:i+Len(w)] == w
HasAt(s, i, w) ==
    /\ i >= 1
    /\ i + Len(w) - 1 <= Len(s)
    /\ SubSeq(s, i, i + Len(w) - 1) = w

-----------------------------------------------------------------------------
(* json.loads.  A JSON value is a record [t, v]: t its Python type, v its  *)
(* content (a dict keeps its members in text order; dict.get takes the     *)
(* last member of a key, as json.loads keeps the last duplicate).          *)

JNull == [t |-> "null", v |-> <<>>]
JBool(b) == [t |-> "bool", v |-> b]
JNum(lexeme) == [t |-> "num", v |-> lexeme]
JStr(s) == [t |-> "str", v |-> s]
JArr(elems) == [t |-> "arr", v |-> elems]
JObj(members) == [t |-> "obj", v |-> members]

ParseFail == [ok |-> FALSE, val |-> JNull, nxt |-> 0]
ParseOk(val, nxt) == [ok |-> TRUE, val |-> val, nxt |-> nxt]

\* The index of the first character at or after i that is no digit.
SkipDigits(s, i) ==
    IF i > Len(s) THEN i
    ELSE First({j \in i..(Len(s) + 1) : j = Len(s) + 1 \/ s[j] \notin Digits})

\* json.scanner NUMBER_RE matched at i, group by group: the integer part
\* without leading zeros from d on (d itself when there is none), the
\* optional fraction from p on and the optional exponent from p on, each
\* giving the end of what it matched.
IntEnd(s, d) ==
    IF d > Len(s) \/ s[d] \notin Digits THEN d
    ELSE IF s[d] = "0" THEN d + 1
    ELSE SkipDigits(s, d + 1)

FracEnd(s, p) ==
    IF p + 1 <= Len(s) /\ s[p] = "." /\ s[p + 1] \in Digits
    THEN SkipDigits(s, p + 2) ELSE p

ExpEnd(s, p) ==
    LET sgn == IF p + 1 <= Len(s) /\ s[p + 1] \in {"-", "+"}
               THEN p + 2 ELSE p + 1
    IN  IF /\ p <= Len(s)
           /\ s[p] \in {"e", "E"}
           /\ sgn <= Len(s)
           /\ s[sgn] \in Digits
        THEN SkipDigits(s, sgn + 1) ELSE p

\* The end of the match of NUMBER_RE at i (i itself when there is no
\* match).
NumberEnd(s, i) ==
    LET d == IF i <= Len(s) /\ s[i] = "-" THEN i + 1 ELSE i
    IN  IF IntEnd(s, d) = d THEN i
        ELSE ExpEnd(s, FracEnd(s, IntEnd(s, d)))

BS == "\\"

\* The characters a backslash may stand before, and what the pair stands
\* for.  The alphabet has no \b, \f, \r, \t and no \u escape.
EscapeChars == {Q, BS, "/", "n"}
Unescaped(c) == IF c = "n" THEN NL ELSE c

\* The number of backslashes that directly precede position k of s, none
\* of them before position lo.
BackslashesBefore(s, lo, k) ==
    IF \A j \in lo..(k - 1) : s[j] = BS THEN k - lo
    ELSE (k - 1) - (CHOOSE j \in lo..(k - 1) :
                       s[j] /= BS /\ \A m \in (j + 1)..(k - 1) : s[m] = BS)

\* The backslashes of t that begin an escape.
EscapeStarts(t) ==
    {k \in 1..Len(t) : t[k] = BS /\ BackslashesBefore(t, 1, k) % 2 = 0}

\* Every backslash that begins an escape stands before a character it may
\* stand before.
ValidEscapes(t) ==
    \A k \in EscapeStarts(t) : k < Len(t) /\ t[k + 1] \in EscapeChars

\* The text with its valid escapes replaced.
RECURSIVE Unescape(_)
Unescape(t) ==
    IF t = <<>> THEN <<>>
    ELSE IF Head(t) = BS
         THEN <<Unescaped(t[2])>> \o Unescape(SubSeq(t, 3, Len(t)))
         ELSE <<Head(t)>> \o Unescape(Tail(t))

\* The string between the quotes, once its end is known.
StringBody(raw, nxt) ==
    IF \A k \in 1..Len(raw) : raw[k] /= BS THEN ParseOk(JStr(raw), nxt)
    ELSE IF ValidEscapes(raw) THEN ParseOk(JStr(Unescape(raw)), nxt)
    ELSE ParseFail

\* json.decoder.py_scanstring (strict): from the opening quote at i to the
\* next quote that no backslash escapes; a control character inside the
\* string, or an invalid escape, is an error.
ScanString(s, i) ==
    LET j == First({k \in (i + 1)..Len(s) :
                       \/ s[k] = NL
                       \/ s[k] = Q /\ BackslashesBefore(s, i + 1, k) % 2 = 0})
    IN  IF j = 0 \/ s[j] = NL THEN ParseFail
        ELSE StringBody(SubSeq(s, i + 1, j - 1), j + 1)

RECURSIVE ScanOnce(_, _)
RECURSIVE ScanMembers(_, _, _)
RECURSIVE ScanElements(_, _, _)

\* json.decoder.JSONObject after the value x of the key: the member, then
\* the end of the object or a comma and the next key.
MemberValue(s, acc, key, x) ==
    LET e == SkipWs(s, x.nxt)
        q == SkipWs(s, e + 1)
    IN  IF ~x.ok \/ e > Len(s) THEN ParseFail
        ELSE IF s[e] = "}"
            THEN ParseOk(JObj(Append(acc, [k |-> key, x |-> x.val])), e + 1)
        ELSE IF s[e] = "," /\ q <= Len(s) /\ s[q] = Q
            THEN ScanMembers(s, q, Append(acc, [k |-> key, x |-> x.val]))
        ELSE ParseFail

\* json.decoder.JSONObject with the opening quote of a key at i.
ScanMembers(s, i, acc) ==
    LET k == ScanString(s, i)
        colon == SkipWs(s, k.nxt)
    IN  IF ~k.ok \/ colon > Len(s) \/ s[colon] /= ":" THEN ParseFail
        ELSE MemberValue(s, acc, k.val.v, ScanOnce(s, SkipWs(s, colon + 1)))

\* json.decoder.JSONArray after the value x: the element, then the end of
\* the array or a comma and the next value.
ElementValue(s, acc, x) ==
    LET e == SkipWs(s, x.nxt)
    IN  IF ~x.ok \/ e > Len(s) THEN ParseFail
        ELSE IF s[e] = "]" THEN ParseOk(JArr(Append(acc, x.val)), e + 1)
        ELSE IF s[e] = ","
            THEN ScanElements(s, SkipWs(s, e + 1), Append(acc, x.val))
        ELSE ParseFail

\* json.decoder.JSONArray with the next value expected at i.
ScanElements(s, i, acc) == ElementValue(s, acc, ScanOnce(s, i))

\* json.scanner.py_make_scanner._scan_once
ScanOnce(s, i) ==
    IF i > Len(s) THEN ParseFail
    ELSE IF s[i] = Q THEN ScanString(s, i)
    ELSE IF s[i] = "{" THEN
        LET j == SkipWs(s, i + 1)
        IN  IF j > Len(s) THEN ParseFail
            ELSE IF s[j] = "}" THEN ParseOk(JObj(<<>>), j + 1)
            ELSE IF s[j] = Q THEN ScanMembers(s, j, <<>>)
            ELSE ParseFail
    ELSE IF s[i] = "[" THEN
        LET j == SkipWs(s, i + 1)
        IN  IF j > Len(s) THEN ParseFail
            ELSE IF s[j] = "]" THEN ParseOk(JArr(<<>>), j + 1)
            ELSE ScanElements(s, j, <<>>)
    ELSE IF HasAt(s, i, <<"n", "u", "l", "l">>) THEN ParseOk(JNull, i + 4)
    ELSE IF HasAt(s, i, <<"t", "r", "u", "e">>) THEN ParseOk(JBool(TRUE), i + 4)
    ELSE IF HasAt(s, i, <<"f", "a", "l", "s", "e">>) THEN ParseOk(JBool(FALSE), i + 5)
    ELSE IF s[i] \in Digits \cup {"-"} /\ NumberEnd(s, i) > i
        THEN ParseOk(JNum(SubSeq(s, i, NumberEnd(s, i) - 1)), NumberEnd(s, i))
    ELSE IF HasAt(s, i, <<"N", "a", "N">>)
        THEN ParseOk(JNum(<<"N", "a", "N">>), i + 3)
    ELSE IF HasAt(s, i, <<"I", "n", "f", "i", "n", "i", "t", "y">>)
        THEN ParseOk(JNum(SubSeq(s, i, i + 7)), i + 8)
    ELSE IF HasAt(s, i, <<"-", "I", "n", "f", "i", "n", "i", "t", "y">>)
        THEN ParseOk(JNum(SubSeq(s, i, i + 8)), i + 9)
    ELSE ParseFail

\* json.loads(s): [ok |-> FALSE] stands for JSONDecodeError.
JsonLoads(s) ==
    LET r == ScanOnce(s, SkipWs(s, 1))
    IN  IF r.ok /\ SkipWs(s, r.nxt) = Len(s) + 1
        THEN [ok |-> TRUE, val |-> r.val]
        ELSE [ok |-> FALSE, val |-> JNull]

IsJson(s) == JsonLoads(s).ok

-----------------------------------------------------------------------------
(* Strategy 1 of _parse_response: re.search, ignoring case, for an opening *)
(* fence, an optional json tag, greedy whitespace, a lazy group of any     *)
(* characters, greedy whitespace and a closing fence.                      *)

\* The backquote character (a TLA+ string cannot hold it): one unit of text.
Backquote == "<bq>"

Fence == <<Backquote, Backquote, Backquote>>

Lower(c) ==
    IF c = "J" THEN "j" ELSE IF c = "S" THEN "s"
    ELSE IF c = "O" THEN "o" ELSE IF c = "N" THEN "n" ELSE c

\* the tag json at i, ignoring case
HasTagAt(s, i) ==
    /\ i + 3 <= Len(s)
    /\ [k \in 1..4 |-> Lower(s[i + k - 1])] = <<"j", "s", "o", "n">>

\* The lazy group and what follows it: the least end q of the group such
\* that whitespace and then a fence follow; 0 when there is none.
LazyEnd(s, from) ==
    First({q \in from..(Len(s) + 1) : HasAt(s, SkipWs(s, q), Fence)})

\* The rest of the pattern after the opening fence and the optional tag.
\* Giving whitespace back to the group cannot turn a failure into a match,
\* so the greedy whitespace before the group is final.
FenceBody(s, afterTag) ==
    LET cs == SkipWs(s, afterTag)
        q == LazyEnd(s, cs)
    IN  IF q = 0 THEN None ELSE Some(SubSeq(s, cs, q - 1))

\* The pattern tried at position p: the optional tag is taken when it is
\* there, and given back when the rest then fails.
FenceMatchAt(s, p) ==
    LET tagged == FenceBody(s, p + 7)
    IN  IF ~HasAt(s, p, Fence) THEN None
        ELSE IF HasTagAt(s, p + 3) /\ IsSome(tagged) THEN tagged
        ELSE FenceBody(s, p + 3)

\* re.search: the match at the leftmost position; group(1) or None.
RECURSIVE FenceSearchFrom(_, _)
FenceSearchFrom(s, from) ==
    LET p == First({j \in from..Len(s) : HasAt(s, j, Fence)})
        m == FenceMatchAt(s, p)
    IN  IF p = 0 THEN None
        ELSE IF IsSome(m) THEN m
        ELSE FenceSearchFrom(s, p + 1)

FenceSearch(s) == FenceSearchFrom(s, 1)

\* The try of json.loads on a candidate: json_str, or None
JsonOrNone(candidate) == IF IsJson(candidate) THEN Some(candidate) ELSE None

\* json_match.group(1).strip() when it is valid JSON, else None
FencedJson(output) ==
    LET m == FenceSearch(output)
    IN  IF IsSome(m) THEN JsonOrNone(Strip(The(m))) ELSE None

-----------------------------------------------------------------------------
(* Strategy 2: SupervisorAgent._extract_json_from_text                     *)

\* brace_count after the inner loop has read text[start..i]
BraceCount(text, start, i) ==
    Cardinality({k \in start..i : text[k] = "{"})
        - Cardinality({k \in start..i : text[k] = "}"})

\* The inner loop from a start position: the first index at which
\* brace_count returns to zero, or 0 when the text ends first.
BraceClose(text, start) ==
    First({i \in start..Len(text) :
              text[i] = "}" /\ BraceCount(text, start, i) = 0})

\* The outer loop over start_positions, from position from on: the start
\* and the end of the span it returns, or None.  A span that closes but
\* does not parse ends the inner loop (break): the next start is the next
\* "{" of the text.
RECURSIVE ExtractFrom(_, _)
ExtractFrom(text, from) ==
    LET start == First({j \in from..Len(text) : text[j] = "{"})
        close == BraceClose(text, start)
    IN  IF start = 0 THEN None
        ELSE IF close /= 0 /\ IsJson(SubSeq(text, start, close))
            THEN Some(<<start, close>>)
        ELSE ExtractFrom(text, start + 1)

\* A scan that skips the starts inside a span that failed to parse.
RECURSIVE ExtractSkippingNested(_, _)
ExtractSkippingNested(text, from) ==
    LET start == First({j \in from..Len(text) : text[j] = "{"})
        close == BraceClose(text, start)
    IN  IF start = 0 THEN None
        ELSE IF close /= 0 /\ IsJson(SubSeq(text, start, close))
            THEN Some(<<start, close>>)
        ELSE IF close /= 0 THEN ExtractSkippingNested(text, close + 1)
        ELSE ExtractSkippingNested(text, start + 1)

ExtractSpanSkippingNested(text) == ExtractSkippingNested(text, 1)

\* The start and the end of the span text[start : i + 1] returned
ExtractSpan(text) == ExtractFrom(text, 1)

_extract_json_from_text(text) ==
    LET span == ExtractSpan(text)
    IN  IF IsSome(span) THEN Some(SubSeq(text, The(span)[1], The(span)[2]))
        ELSE None


-----------------------------------------------------------------------------
(* SupervisorAgent._parse_response                                         *)

\* The fixed phrases of the code, each one unit of text (the source writes
\* them in Chinese; the parser of TLA+ takes ASCII only).
ManualReviewMarker == <<"<cannot parse the agent response, check manually>">>
ExecFailedPrefix == <<"<agent execution failed: >">>
ExecFailedSummary == <<"<cannot check the task status, agent execution error>">>
NoOutputSummary == <<"<no output>">>

\* resp.output[:200]
SummaryLimit == 200
Truncate(s) == SubSeq(s, 1, Min(Len(s), SummaryLimit))

KeyIsComplete == <<"i", "s", "_", "c", "o", "m", "p", "l", "e", "t", "e">>
KeyStatus == <<"s", "t", "a", "t", "u", "s">>
KeyPendingItems ==
    <<"p", "e", "n", "d", "i", "n", "g", "_", "i", "t", "e", "m", "s">>
KeyNewlyCompleted ==
    <<"n", "e", "w", "l", "y", "_", "c", "o", "m", "p", "l", "e", "t", "e", "d">>
KeySummary == <<"s", "u", "m", "m", "a", "r", "y">>

\* TaskStatus: the values of the enumeration
StatusCompleted == <<"c", "o", "m", "p", "l", "e", "t", "e", "d">>
StatusInProgress == <<"i", "n", "_", "p", "r", "o", "g", "r", "e", "s", "s">>
StatusPending == <<"p", "e", "n", "d", "i", "n", "g">>

\* A status taken as the reply gives it whenever it is a string.
TaskStatusKept(status_str) ==
    IF status_str.t = "str" THEN status_str.v ELSE StatusPending

\* TaskStatus(status_str), with ValueError caught: an unknown value is PENDING
TaskStatus(status_str) ==
    IF status_str.t = "str"
       /\ status_str.v \in {StatusCompleted, StatusInProgress, StatusPending}
    THEN status_str.v
    ELSE StatusPending

\* dict.get(key, default) on the members of a parsed object
DictGet(members, key, default) ==
    LET at == {i \in 1..Len(members) : members[i].k = key}
    IN  IF at = {} THEN default
        ELSE members[CHOOSE i \in at : \A j \in at : j <= i].x

SupervisorResult(is_complete, status, pending_items, summary, raw_response, newly_completed) ==
    [is_complete |-> is_complete, status |-> status,
     pending_items |-> pending_items, summary |-> summary,
     raw_response |-> raw_response, newly_completed |-> newly_completed,
     iteration |-> 0]

AgentResponse(success, output, error) ==
    [success |-> success, output |-> output, error |-> error]

Returns(x) == [raised |-> FALSE, value |-> x]
Raises == [raised |-> TRUE, value |-> None]

\* Strategy 3: output.strip() when it is valid JSON, else None
WholeJson(output) == JsonOrNone(Strip(output))

\* json_str after three tries, each made only while json_str is None.
FirstSome(first, second, third) ==
    IF IsSome(first) THEN first
    ELSE IF IsSome(second) THEN second
    ELSE third

\* The strategies tried in another order: whole reply, braces, fence.
JsonStrWholeFirst(output) ==
    FirstSome(WholeJson(output), _extract_json_from_text(output),
              FencedJson(output))

\* json_str after the three strategies in the order of the code (lines
\* 371-394).
JsonStr(output) ==
    FirstSome(FencedJson(output), _extract_json_from_text(output),
              WholeJson(output))

\* A failed call answered by parsing its output like any other reply.
FailureResultParsed(resp) ==
    LET found == JsonStr(resp.output)
        data == JsonLoads(The(found)).val
    IN  IF IsSome(found) /\ data.t = "obj"
        THEN SupervisorResult(
                 DictGet(data.v, KeyIsComplete, JBool(FALSE)),
                 TaskStatus(DictGet(data.v, KeyStatus, JStr(StatusPending))),
                 DictGet(data.v, KeyPendingItems, JArr(<<>>)),
                 DictGet(data.v, KeySummary, JStr(<<>>)),
                 resp.output,
                 DictGet(data.v, KeyNewlyCompleted, JArr(<<>>)))
        ELSE SupervisorResult(JBool(FALSE), StatusPending,
                     JArr(<<JStr(ExecFailedPrefix \o resp.error)>>),
                     JStr(ExecFailedSummary), resp.output, JArr(<<>>))

\* The result for a failed agent call (lines 362-369).
FailureResult(resp) ==
    SupervisorResult(JBool(FALSE), StatusPending,
                     JArr(<<JStr(ExecFailedPrefix \o resp.error)>>),
                     JStr(ExecFailedSummary), resp.output, JArr(<<>>))

\* The unparsable result without the summary's bound.
UnparsableResultWhole(resp) ==
    SupervisorResult(JBool(FALSE), StatusPending,
                     JArr(<<JStr(ManualReviewMarker)>>),
                     JStr(IF resp.output /= <<>>
                          THEN resp.output
                          ELSE NoOutputSummary),
                     resp.output, JArr(<<>>))

\* The result when no strategy found JSON (lines 396-404).
UnparsableResult(resp) ==
    SupervisorResult(JBool(FALSE), StatusPending,
                     JArr(<<JStr(ManualReviewMarker)>>),
                     JStr(IF resp.output /= <<>>
                          THEN Truncate(resp.output)
                          ELSE NoOutputSummary),
                     resp.output, JArr(<<>>))

\* The result for parsed data (lines 406-428); data.get raises
\* AttributeError, which the except clause does not catch, when the data
\* is no dict.
ParsedResult(output, data) ==
    IF data.t /= "obj" THEN Raises
    ELSE Returns(SupervisorResult(
             DictGet(data.v, KeyIsComplete, JBool(FALSE)),
             TaskStatus(DictGet(data.v, KeyStatus, JStr(StatusPending))),
             DictGet(data.v, KeyPendingItems, JArr(<<>>)),
             DictGet(data.v, KeySummary, JStr(<<>>)),
             output,
             DictGet(data.v, KeyNewlyCompleted, JArr(<<>>))))

\* Lines 396-438: the result once the strategies have set json_str to
\* found.
ResultFromJson(resp, found) ==
    IF found = None THEN Returns(UnparsableResult(resp))
    ELSE ParsedResult(resp.output, JsonLoads(The(found)).val)

_parse_response(resp) ==
    IF ~resp.success THEN Returns(FailureResult(resp))
    ELSE ResultFromJson(resp, JsonStr(resp.output))

-----------------------------------------------------------------------------
(* The Todo Store: TodoItem and TodoList                                   *)

TodoItem(content, completed) == [content |-> content, completed |-> completed]

TodoList(items, task_description) ==
    [items |-> items, task_description |-> task_description]

EmptyTodoList == TodoList(<<>>, <<>>)

Contents(items) == {items[i].content : i \in 1..Len(items)}

\* [item.content for item in self.items if item.completed == flag]
RECURSIVE ContentsWithFlag(_, _)
ContentsWithFlag(items, flag) ==
    IF items = <<>> THEN <<>>
    ELSE (IF Head(items).completed = flag THEN <<Head(items).content>> ELSE <<>>)
             \o ContentsWithFlag(Tail(items), flag)

get_pending_items(items) == ContentsWithFlag(items, FALSE)

get_completed_items(items) == ContentsWithFlag(items, TRUE)

\* A mark_completed that sets the flag of every item up to the match.
MarkCompletedUpTo(items, item_content) ==
    LET at == First({i \in 1..Len(items) : items[i].content = item_content})
    IN  IF at = 0 THEN [items |-> items, found |-> FALSE]
        ELSE [items |-> [i \in 1..Len(items) |->
                            IF i <= at THEN TodoItem(items[i].content, TRUE)
                            ELSE items[i]],
              found |-> TRUE]

\* TodoList.mark_completed: the first item with the content gets
\* completed = True; the value returned is found.
mark_completed(items, item_content) ==
    LET at == First({i \in 1..Len(items) : items[i].content = item_content})
    IN  IF at = 0 THEN [items |-> items, found |-> FALSE]
        ELSE [items |-> [items EXCEPT ![at].completed = TRUE], found |-> TRUE]

\* An add_item that gives an existing item the flag of the call.
AddItemUpsert(items, content, completed) ==
    IF ~\E i \in 1..Len(items) : items[i].content = content
    THEN Append(items, TodoItem(content, completed))
    ELSE [i \in 1..Len(items) |->
             IF items[i].content = content THEN TodoItem(content, completed)
             ELSE items[i]]

\* An add_item without the test for an existing item.
AddItemAlways(items, content, completed) ==
    Append(items, TodoItem(content, completed))

\* TodoList.add_item
add_item(items, content, completed) ==
    IF ~\E i \in 1..Len(items) : items[i].content = content
    THEN Append(items, TodoItem(content, completed))
    ELSE items

KeyTaskDescription ==
    <<"t", "a", "s", "k", "_", "d", "e", "s", "c", "r", "i", "p", "t", "i", "o", "n">>
KeyItems == <<"i", "t", "e", "m", "s">>
KeyContent == <<"c", "o", "n", "t", "e", "n", "t">>
KeyCompleted == <<"c", "o", "m", "p", "l", "e", "t", "e", "d">>

\* TodoItem.to_dict and TodoList.to_dict: what save writes to the file
ItemToDict(item) ==
    JObj(<<[k |-> KeyContent, x |-> item.content],
           [k |-> KeyCompleted, x |-> JBool(item.completed)]>>)

TodoToDict(tl) ==
    JObj(<<[k |-> KeyTaskDescription, x |-> JStr(tl.task_description)],
           [k |-> KeyItems,
            x |-> JArr([i \in 1..Len(tl.items) |-> ItemToDict(tl.items[i])])]>>)

\* TodoList.from_dict
TodoFromDict(data) ==
    LET items == DictGet(data.v, KeyItems, JArr(<<>>)).v
    IN  TodoList([i \in 1..Len(items) |->
                     TodoItem(DictGet(items[i].v, KeyContent, JNull),
                              DictGet(items[i].v, KeyCompleted, JBool(FALSE)).v)],
                 DictGet(data.v, KeyTaskDescription, JStr(<<>>)).v)

\* A load that finds a list where there is no file.
TodoLoadLeftover(file) ==
    IF IsSome(file) THEN TodoFromDict(The(file))
    ELSE TodoList(<<TodoItem(JStr(<<"a">>), TRUE)>>, <<>>)

\* TodoList.load: the empty list when there is no file
TodoLoad(file) == IF IsSome(file) THEN TodoFromDict(The(file)) ELSE EmptyTodoList

\* SupervisorResult.to_dict: what save_to_file writes (no raw_response)
ResultToDict(r) ==
    [is_complete |-> r.is_complete, status |-> r.status,
     pending_items |-> r.pending_items, newly_completed |-> r.newly_completed,
     summary |-> r.summary, iteration |-> r.iteration]

-----------------------------------------------------------------------------
(* SupervisorAgent._update_todo_list                                       *)

\* Whether a for loop can run over the value; over a number, a boolean or
\* None it raises TypeError.
Iterable(v) == v.t \in {"arr", "str", "obj"}

\* The keys of a dict in the order of their first occurrence.
RECURSIVE DictKeys(_, _)
DictKeys(members, seen) ==
    IF members = <<>> THEN <<>>
    ELSE IF Head(members).k \in seen THEN DictKeys(Tail(members), seen)
    ELSE <<JStr(Head(members).k)>>
             \o DictKeys(Tail(members), seen \cup {Head(members).k})

\* What a for loop over the value yields: the elements of a list, the
\* characters of a str, the keys of a dict.
Entries(v) ==
    IF v.t = "arr" THEN v.v
    ELSE IF v.t = "str" THEN [i \in 1..Len(v.v) |-> JStr(<<v.v[i]>>)]
    ELSE DictKeys(v.v, {})

\* for item in newly_completed: self.todo_list.mark_completed(item)
RECURSIVE MarkAll(_, _)
MarkAll(items, entries) ==
    IF entries = <<>> THEN items
    ELSE MarkAll(mark_completed(items, Head(entries)).items, Tail(entries))

\* for item in result.pending_items: self.todo_list.add_item(item, False)
RECURSIVE AddAll(_, _)
AddAll(items, entries) ==
    IF entries = <<>> THEN items
    ELSE AddAll(add_item(items, Head(entries), FALSE), Tail(entries))

\* An update that adds the pending items before it marks the completed ones.
UpdateAddFirst(tl, res) ==
    IF ~Iterable(res.newly_completed) \/ ~Iterable(res.pending_items)
    THEN [raised |-> TRUE, todo |-> tl, saved |-> FALSE]
    ELSE [raised |-> FALSE,
          todo |-> [tl EXCEPT !.items =
                       MarkAll(AddAll(tl.items, Entries(res.pending_items)),
                               Entries(res.newly_completed))],
          saved |-> TRUE]

\* The merge without the _save_todo_list that ends it.
UpdateUnsaved(tl, res) ==
    IF ~Iterable(res.newly_completed) \/ ~Iterable(res.pending_items)
    THEN [raised |-> TRUE, todo |-> tl, saved |-> FALSE]
    ELSE [raised |-> FALSE,
          todo |-> [tl EXCEPT !.items =
                       AddAll(MarkAll(tl.items, Entries(res.newly_completed)),
                              Entries(res.pending_items))],
          saved |-> FALSE]

\* The list after the call, whether the call raised, and whether it reached
\* _save_todo_list.  A loop over a value that is not iterable raises
\* TypeError: nothing is saved, and the marks of the first loop stay in
\* memory when it is the second loop that raises.
_update_todo_list(tl, res) ==
    IF ~Iterable(res.newly_completed)
    THEN [raised |-> TRUE, todo |-> tl, saved |-> FALSE]
    ELSE LET marked == MarkAll(tl.items, Entries(res.newly_completed))
         IN  IF ~Iterable(res.pending_items)
             THEN [raised |-> TRUE, todo |-> [tl EXCEPT !.items = marked],
                   saved |-> FALSE]
             ELSE [raised |-> FALSE,
                   todo |-> [tl EXCEPT !.items =
                                AddAll(marked, Entries(res.pending_items))],
                   saved |-> TRUE]

-----------------------------------------------------------------------------
(* Replies of the agent: texts built the way a reply is written.           *)

Quoted(t) == <<Q>> \o t \o <<Q>>

RECURSIVE Join(_, _)
Join(texts, sep) ==
    IF texts = <<>> THEN <<>>
    ELSE IF Len(texts) = 1 THEN texts[1]
    ELSE texts[1] \o sep \o Join(Tail(texts), sep)

Member(key, valueText) == Quoted(key) \o <<":">> \o valueText
ObjectText(members) == <<"{">> \o Join(members, <<",">>) \o <<"}">>
ArrayText(elems) == <<"[">> \o Join(elems, <<",">>) \o <<"]">>
StringsText(strs) == ArrayText([i \in 1..Len(strs) |-> Quoted(strs[i])])
TrueText == <<"t", "r", "u", "e">>
FalseText == <<"f", "a", "l", "s", "e">>
Fenced(tag, t) == Fence \o tag \o <<NL>> \o t \o <<NL>> \o Fence
JsonTag == <<"j", "s", "o", "n">>

\* A reply with all five fields.
FullReply(complete, status, pending, newly, summary) ==
    ObjectText(<<Member(KeyIsComplete, complete),
                 Member(KeyStatus, Quoted(status)),
                 Member(KeyPendingItems, StringsText(pending)),
                 Member(KeyNewlyCompleted, StringsText(newly)),
                 Member(KeySummary, Quoted(summary))>>)

\* First evaluation of the scenario: one pending item, nothing completed.
ReplyPendingA ==
    FullReply(FalseText, StatusInProgress, <<<<"a">>>>, <<>>, <<"s">>)

\* Second evaluation of the scenario, in a fenced block with prose around.
ReplyDoneA ==
    <<"o", "k", NL>>
        \o Fenced(JsonTag, FullReply(TrueText, StatusCompleted, <<>>,
                                     <<<<"a">>>>, <<"d">>))
        \o <<NL, "b", "y", "e">>

\* Both lists name b; a is named twice as pending; c was never registered.
ReplyBoth ==
    ObjectText(<<Member(KeyNewlyCompleted, StringsText(<<<<"b">>, <<"c">>>>)),
                 Member(KeyPendingItems,
                        StringsText(<<<<"b">>, <<"a">>, <<"a">>>>))>>)

\* Complete, with an unknown status and a pending item.
ReplyCompleteWithPending ==
    ObjectText(<<Member(KeyIsComplete, TrueText),
                 Member(KeyStatus, Quoted(<<"o", "k">>)),
                 Member(KeyPendingItems, StringsText(<<<<"b">>>>))>>)

\* No JSON at all.
ReplySorry == <<"S", "o", "r", "r", "y", ".">>

\* Valid JSON that is no object.
ReplyNumber == <<"4", "2">>

\* A pending_items field that is no list.
ReplyPendingNull ==
    ObjectText(<<Member(KeyNewlyCompleted, StringsText(<<<<"a">>>>)),
                 Member(KeyPendingItems, <<"n", "u", "l", "l">>)>>)

Replies ==
    {ReplyPendingA, ReplyDoneA, ReplyBoth, ReplyCompleteWithPending,
     ReplySorry, ReplyNumber, ReplyPendingNull, <<>>}

\* What AgentCLI.execute returns: a reply, or a failure with an error text
\* (and whatever output there was).
Responses ==
    {AgentResponse(TRUE, out, <<>>) : out \in Replies}
        \cup {AgentResponse(FALSE, ReplyDoneA, <<"e">>)}

-----------------------------------------------------------------------------
(* SupervisorAgent.check_completion, step by step                          *)

MaxChecks == 2

Tasks == {<<"t">>, <<"u">>}
ContextTexts == {<<>>, <<"x">>}
Iterations == 1..MaxChecks

\* The record of the last Todo Store operation.
LastOp(op, arg, flag, ret, before, newly, pending) ==
    [op |-> op, arg |-> arg, flag |-> flag, ret |-> ret, before |-> before,
     newly |-> newly, pending |-> pending]

NoOp == LastOp("none", JNull, FALSE, FALSE, <<>>, <<>>, <<>>)

NoResultFiles == [i \in Iterations |-> None]

\* The markers the prompt shows for no completed items and for no context.
NoneCompletedYet == <<"<no completed items yet>">>
FirstCheck == <<"<first check, no history>">>

\* The property todo_list loading the file on every access.
TodoListReloaded == TodoLoad(todo_file)

\* The property todo_list: the list in memory, loaded from the file on the
\* first access.
TodoListProperty == IF IsSome(todo_list) THEN The(todo_list) ELSE TodoLoad(todo_file)

\* The prompt, as the three values the template is filled with.
Prompt(task, completed_items, context) ==
    [task |-> task,
     completed_items |-> IF completed_items /= <<>> THEN completed_items
                         ELSE <<JStr(NoneCompletedYet)>>,
     context |-> IF context /= <<>> THEN context ELSE FirstCheck]

Init ==
    /\ todo_list = None
    /\ todo_file = None
    /\ result_files = NoResultFiles
    /\ pc = "idle"
    /\ call = None
    /\ response = None
    /\ json_str = None
    /\ result = None
    /\ returned = None
    /\ checks = 0
    /\ last = NoOp
    /\ runner = None
    /\ cli = None

\* Lines 265-286: the task description is overwritten, the prompt is built
\* and the agent is called.
CheckBegin(task, context, iteration, save_to_file) ==
    /\ pc \in {"idle", "raised"}
    /\ checks < MaxChecks
    /\ checks' = checks + 1
    /\ todo_list' = Some([TodoListProperty EXCEPT !.task_description = task])
    /\ call' = Some([task |-> task, context |-> context,
                     iteration |-> iteration, save_to_file |-> save_to_file,
                     prompt |-> Some(Prompt(task,
                                            get_completed_items(TodoListProperty.items),
                                            context))])
    /\ pc' = "agent"
    /\ response' = None
    /\ json_str' = None
    /\ result' = None
    /\ returned' = None
    /\ last' = NoOp
    /\ UNCHANGED <<todo_file, result_files>>

\* Line 286: the agent call returns.  The prompt and the context are not
\* read again after it, and call keeps the arguments that are.
AgentReturns(resp) ==
    /\ pc = "agent"
    /\ response' = Some(resp)
    /\ call' = Some([The(call) EXCEPT !.context = <<>>, !.prompt = None])
    /\ pc' = "parse"
    /\ UNCHANGED <<todo_list, todo_file, result_files, json_str, result,
                   returned, checks, last, runner, cli>>

\* The parse step without the stamp of line 290.
ParseUnstamped ==
    /\ pc = "parse"
    /\ json_str' = IF The(response).success
                   THEN JsonStr(The(response).output) ELSE None
    /\ \E r \in {_parse_response(The(response))} :
           IF r.raised
           THEN /\ pc' = "raised"
                /\ UNCHANGED result
           ELSE /\ pc' = "merge"
                /\ result' = Some(r.value)
    /\ UNCHANGED <<todo_list, todo_file, result_files, call, response,
                   returned, checks, last, runner, cli>>

\* Lines 289-290: the response is parsed and the result stamped with the
\* iteration; an exception of _parse_response leaves check_completion.
\* json_str is the local of _parse_response after the three strategies (a
\* failed call returns before it is set).
Parse ==
    /\ pc = "parse"
    /\ json_str' = IF The(response).success
                   THEN JsonStr(The(response).output) ELSE None
    /\ \E r \in {_parse_response(The(response))} :
           IF r.raised
           THEN /\ pc' = "raised"
                /\ UNCHANGED result
           ELSE /\ pc' = "merge"
                /\ result' = Some([r.value EXCEPT
                                      !.iteration = The(call).iteration])
    /\ UNCHANGED <<todo_list, todo_file, result_files, call, response,
                   returned, checks, last, runner, cli>>

\* A merge that leaves the store alone when the result is the one of a
\* failed call or of an unparsable reply.
MergeParsedOnly ==
    /\ pc = "merge"
    /\ \E u \in {IF The(response).success /\ IsSome(json_str)
                  THEN _update_todo_list(The(todo_list), The(result))
                  ELSE [raised |-> FALSE, todo |-> The(todo_list),
                        saved |-> TRUE]} :
           /\ todo_list' = Some(u.todo)
           /\ todo_file' = IF u.saved THEN Some(TodoToDict(u.todo))
                           ELSE todo_file
           /\ pc' = IF u.raised THEN "raised" ELSE "write"
           /\ last' = LastOp("update", JNull, FALSE, ~u.raised,
                             The(todo_list).items,
                             The(result).newly_completed,
                             The(result).pending_items)
    /\ UNCHANGED <<result_files, call, response, json_str, result, returned,
                   checks, runner, cli>>

\* Line 293: _update_todo_list, which ends with _save_todo_list.
Merge ==
    /\ pc = "merge"
    /\ \E u \in {_update_todo_list(The(todo_list), The(result))} :
           /\ todo_list' = Some(u.todo)
           /\ todo_file' = IF u.saved THEN Some(TodoToDict(u.todo))
                           ELSE todo_file
           /\ pc' = IF u.raised THEN "raised" ELSE "write"
           /\ last' = LastOp("update", JNull, FALSE, ~u.raised,
                             The(todo_list).items,
                             The(result).newly_completed,
                             The(result).pending_items)
    /\ UNCHANGED <<result_files, call, response, json_str, result, returned,
                   checks, runner, cli>>

\* check_completion returning its result without writing the result file.
WriteResultSkipped ==
    /\ pc = "write"
    /\ returned' = result
    /\ pc' = "idle"
    /\ UNCHANGED <<todo_list, todo_file, result_files, call, response,
                   json_str, result, checks, last, runner, cli>>

\* Lines 296-300: the result file is written when asked for, and the
\* result returned.
WriteResult ==
    /\ pc = "write"
    /\ result_files' =
           IF The(call).save_to_file
           THEN [result_files EXCEPT
                    ![The(call).iteration] = Some(ResultToDict(The(result)))]
           ELSE result_files
    /\ returned' = result
    /\ pc' = "idle"
    /\ UNCHANGED <<todo_list, todo_file, call, response, json_str, result,
                   checks, last, runner, cli>>

Next ==
    \/ \E task \in Tasks, context \in ContextTexts, iteration \in Iterations,
          save_to_file \in BOOLEAN :
           CheckBegin(task, context, iteration, save_to_file)
               /\ UNCHANGED <<runner, cli>>
    \/ \E resp \in Responses : AgentReturns(resp)
    \/ Parse
    \/ Merge
    \/ WriteResult

Spec == Init /\ [][Next]_vars

-----------------------------------------------------------------------------
(* The parser on any reply: one check_completion whose agent answers with  *)
(* a reply drawn from short texts over the characters the strategies look  *)
(* at, from objects set in prose with decoy braces, and from replies       *)
(* around the bound of the summary.                                        *)

MaxLen == 5

ScanAlphabet == {"{", "}", Q, "1", " "}

ShortTexts == UNION {[1..n -> ScanAlphabet] : n \in 0..MaxLen}

LongReplies ==
    {[i \in 1..n |-> "x"] : n \in (SummaryLimit - 1)..(SummaryLimit + 1)}

ObjComplete == ObjectText(<<Member(KeyIsComplete, TrueText)>>)
ObjPending == ObjectText(<<Member(KeyPendingItems, StringsText(<<<<"a">>>>))>>)
ObjNested ==
    ObjectText(<<Member(KeySummary, ObjectText(<<Member(<<"k">>, <<"{", "}">>)>>))>>)
ObjCloseInString == ObjectText(<<Member(KeySummary, Quoted(<<"}">>))>>)
ObjOpenInString == ObjectText(<<Member(KeySummary, Quoted(<<"{">>))>>)

Objects ==
    {ObjComplete, ObjPending, ObjNested, ObjCloseInString, ObjOpenInString}

\* What stands in the middle of a composed reply: an object, bare or
\* fenced, or something that is no object.
Middles ==
    Objects
        \cup {Fenced(JsonTag, o) : o \in Objects}
        \cup {Fenced(<<>>, ObjPending),
              Fenced(<<"J", "S", "O", "N">>, ObjPending),
              Fence \o ObjPending \o Fence,
              Fenced(<<>>, <<"x">>),
              Fenced(JsonTag, ArrayText(<<<<"1">>>>)),
              ArrayText(<<ObjComplete>>),
              Quoted(<<"a">>),
              <<"S", "o", "r", "r", "y", ".">>}

\* Prose before and after, with decoy braces: an unmatched brace, a group
\* that is no JSON, a group with an object nested in it, another object.
Befores ==
    {<<>>,
     <<"o", "k", " ">>,
     <<"{", " ">>,
     <<"{", "x", "}", " ">>,
     <<"{", "x", " ", "{", "}", "}", " ">>,
     ObjComplete \o <<NL>>}

Afters ==
    {<<>>,
     <<" ", "b", "y", "e">>,
     <<" ", "{">>,
     <<" ", "}">>,
     <<" ", "{", "y", "}">>,
     <<NL>> \o Fenced(JsonTag, ObjComplete)}

ReplyParts(before, object, after) ==
    [before |-> before, object |-> object, after |-> after]

TextOf(parts) == parts.before \o parts.object \o parts.after

Composed ==
    {ReplyParts(b, m, a) : b \in Befores, m \in Middles, a \in Afters}

ParseReplies ==
    ShortTexts \cup LongReplies \cup Replies \cup {TextOf(p) : p \in Composed}

Errors == {<<>>, <<"e">>}

ParseResponses ==
    {AgentResponse(TRUE, out, <<>>) : out \in ParseReplies}
        \cup {AgentResponse(FALSE, out, e) :
                 out \in Replies \cup Middles, e \in Errors}

\* The first check_completion of a fresh evaluator has called the agent.
InitParse ==
    /\ todo_list = Some(TodoList(<<>>, <<"t">>))
    /\ todo_file = None
    /\ result_files = NoResultFiles
    /\ pc = "agent"
    /\ call = Some([task |-> <<"t">>, context |-> <<>>, iteration |-> 1,
                    save_to_file |-> TRUE,
                    prompt |-> Some(Prompt(<<"t">>, <<>>, <<>>))])
    /\ response = None
    /\ json_str = None
    /\ result = None
    /\ returned = None
    /\ checks = 1
    /\ last = NoOp
    /\ runner = None
    /\ cli = None

NextParse ==
    \/ \E resp \in ParseResponses : AgentReturns(resp)
    \/ Parse
    \/ Merge
    \/ WriteResult

SpecParse == InitParse /\ [][NextParse]_vars

-----------------------------------------------------------------------------
(* The balanced-brace strategy on its own: _extract_json_from_text called  *)
(* with a text, kept in call as the three parts it is made of.             *)

ExtractInputs ==
    Composed \cup {ReplyParts(t, <<>>, <<>>) : t \in ShortTexts}

Extract(parts) ==
    /\ pc = "idle"
    /\ call' = Some(parts)
    /\ json_str' = _extract_json_from_text(TextOf(parts))
    /\ pc' = "extracted"
    /\ UNCHANGED <<todo_list, todo_file, result_files, response, result,
                   returned, checks, last, runner, cli>>

NextExtract == \E parts \in ExtractInputs : Extract(parts)

SpecExtract == Init /\ [][NextExtract]_vars

-----------------------------------------------------------------------------
(* The Todo Store on its own: a TodoList that starts empty and takes any   *)
(* sequence of add_item, mark_completed and _update_todo_list calls.       *)

MaxEntries == 2

StoreContents == {JStr(<<"a">>), JStr(<<"b">>)}

EntryLists == UNION {[1..n -> StoreContents] : n \in 0..MaxEntries}

items == The(todo_list).items

InitStore ==
    /\ todo_list = Some(EmptyTodoList)
    /\ todo_file = None
    /\ result_files = NoResultFiles
    /\ pc = "idle"
    /\ call = None
    /\ response = None
    /\ json_str = None
    /\ result = None
    /\ returned = None
    /\ checks = 0
    /\ last = NoOp
    /\ runner = None
    /\ cli = None

StoreAddItem(content, completed) ==
    /\ todo_list' = Some([The(todo_list) EXCEPT
                             !.items = add_item(items, content, completed)])
    /\ last' = LastOp("add_item", content, completed, FALSE, items, <<>>, <<>>)
    /\ UNCHANGED <<todo_file, result_files, pc, call, response, json_str,
                   result, returned, checks, runner, cli>>

StoreMarkCompleted(content) ==
    /\ todo_list' = Some([The(todo_list) EXCEPT
                             !.items = mark_completed(items, content).items])
    /\ last' = LastOp("mark_completed", content, FALSE,
                      mark_completed(items, content).found, items, <<>>, <<>>)
    /\ UNCHANGED <<todo_file, result_files, pc, call, response, json_str,
                   result, returned, checks, runner, cli>>

\* _update_todo_list with a result that carries the two lists; it ends
\* with _save_todo_list.
StoreUpdate(newly, pending) ==
    LET res == SupervisorResult(JBool(FALSE), StatusPending, JArr(pending),
                                JStr(<<>>), <<>>, JArr(newly))
        u == _update_todo_list(The(todo_list), res)
    IN  /\ todo_list' = Some(u.todo)
        /\ todo_file' = IF u.saved THEN Some(TodoToDict(u.todo)) ELSE todo_file
        /\ last' = LastOp("update", JNull, FALSE, FALSE, items, newly, pending)
        /\ UNCHANGED <<result_files, pc, call, response, json_str, result,
                       returned, checks, runner, cli>>

\* _update_todo_list with a result whose pending_items is None: the second
\* loop raises TypeError after the first has marked, and nothing is saved.
StoreUpdateRaises(newly) ==
    LET res == SupervisorResult(JBool(FALSE), StatusPending, JNull,
                                JStr(<<>>), <<>>, JArr(newly))
        u == _update_todo_list(The(todo_list), res)
    IN  /\ todo_list' = Some(u.todo)
        /\ todo_file' = IF u.saved THEN Some(TodoToDict(u.todo)) ELSE todo_file
        /\ last' = LastOp("update_raised", JNull, FALSE, u.raised, items,
                          newly, <<>>)
        /\ UNCHANGED <<result_files, pc, call, response, json_str, result,
                       returned, checks, runner, cli>>

NextStore ==
    \/ \E c \in StoreContents, f \in BOOLEAN : StoreAddItem(c, f)
    \/ \E c \in StoreContents : StoreMarkCompleted(c)
    \/ \E n \in EntryLists, p \in EntryLists : StoreUpdate(n, p)
    \/ \E n \in EntryLists : StoreUpdateRaises(n)

SpecStore == InitStore /\ [][NextStore]_vars

-----------------------------------------------------------------------------
(* Properties of the Todo Store, under SpecStore                        *)

Positions(its, content) == {i \in 1..Len(its) : its[i].content = content}

\* C1: after any sequence of add_item, mark_completed and merges applied to
\* a store that starts empty, no two items of the store have the same
\* content.
C1_NoDuplicateContent ==
    \A i \in 1..Len(items), j \in 1..Len(items) :
        i /= j => items[i].content /= items[j].content

\* A merge whose pending list names a new content twice has run on a store
\* that had items, and has added one item.
C1_Witness ==
    /\ last.op = "update"
    /\ \E i \in 1..Len(last.pending), j \in 1..Len(last.pending) :
           i /= j /\ last.pending[i] = last.pending[j]
           /\ last.pending[i] \notin Contents(last.before)
    /\ last.before /= <<>>
    /\ Len(items) = Len(last.before) + 1

\* C2: add_item is idempotent: a second add_item of the content of the call
\* before it, with any completed argument, leaves the item sequence as it
\* was after the first call, with exactly one item of that content.
C2_AddItemIdempotent ==
    [][\A c \in StoreContents, f \in BOOLEAN :
          (last.op = "add_item" /\ last.arg = c /\ StoreAddItem(c, f))
              => /\ The(todo_list').items = items
                 /\ Cardinality(Positions(The(todo_list').items, c)) = 1]_vars

\* The second add_item of a content has run, with a completed argument
\* other than the flag of the item.
C2_Witness ==
    /\ last.op = "add_item"
    /\ last.before = items
    /\ \E i \in Positions(items, last.arg) : items[i].completed /= last.flag

\* C3: mark_completed(c) returns false and leaves every item unchanged when
\* no item has content c; otherwise it sets the completed flag of the item
\* with content c, changes no other item, and returns true.
C3_MarkCompleted ==
    [][\A c \in StoreContents :
          StoreMarkCompleted(c)
              => IF Positions(items, c) = {}
                 THEN ~last'.ret /\ The(todo_list').items = items
                 ELSE /\ last'.ret
                      /\ Len(The(todo_list').items) = Len(items)
                      /\ \A i \in 1..Len(items) :
                             The(todo_list').items[i] =
                                 IF items[i].content = c
                                 THEN TodoItem(c, TRUE) ELSE items[i]]_vars

\* mark_completed has run with a content that no item has, on a store whose
\* one item was completed by an earlier call; it returned false.
C3_Witness ==
    /\ last.op = "mark_completed"
    /\ ~last.ret
    /\ last.before = items
    /\ Len(items) = 1
    /\ items[1].completed

-----------------------------------------------------------------------------
(* The merge step                                                          *)

IsListOfStrings(v) ==
    /\ v.t = "arr"
    /\ \A i \in 1..Len(v.v) : v.v[i].t = "str"

\* The positions of a list whose entry is in no item of the store and at
\* no earlier position of the list.
FirstNew(entries, its) ==
    {i \in 1..Len(entries) :
        /\ Positions(its, entries[i]) = {}
        /\ \A j \in 1..(i - 1) : entries[j] /= entries[i]}

\* The merge of a parsed reply has just ended.
Merged ==
    /\ pc = "write"
    /\ last.op = "update"
    /\ The(response).success
    /\ IsSome(json_str)
    /\ IsListOfStrings(last.newly)
    /\ IsListOfStrings(last.pending)

\* C4: after the merge step of check_completion for a successfully parsed
\* reply whose newly_completed and pending_items are lists of strings, the
\* store keeps its earlier items in place, each of them completed when it
\* was completed before or its content is an entry of newly_completed;
\* behind them stands one pending item for every pending_items entry that
\* was not in the store, once each and in reply order; an entry of
\* newly_completed that matched no item added nothing; and the todo file
\* holds the store as it now is.
C4_MergeStep ==
    Merged =>
        LET before == last.before
            newly == last.newly.v
            pending == last.pending.v
            fresh == FirstNew(pending, before)
            n == Len(before)
        IN  /\ Len(items) = n + Cardinality(fresh)
            /\ \A i \in 1..n :
                  /\ items[i].content = before[i].content
                  /\ items[i].completed =
                        (before[i].completed
                            \/ \E j \in 1..Len(newly) :
                                  newly[j] = before[i].content)
            /\ \A i \in fresh :
                  items[n + Cardinality({k \in fresh : k <= i})]
                      = TodoItem(pending[i], FALSE)
            /\ IsSome(todo_file)
            /\ TodoLoad(todo_file) = The(todo_list)

\* The second evaluation of the scenario: the item the first reply
\* registered as pending is named by newly_completed and is now completed,
\* while an entry that matched nothing left no item.
C4_Witness ==
    /\ Merged
    /\ checks = 2
    /\ Len(last.before) = 1
    /\ ~last.before[1].completed
    /\ Len(items) = 1
    /\ items[1].completed
    /\ get_pending_items(items) = <<>>

-----------------------------------------------------------------------------
(* The parser                                                              *)

\* _parse_response has acted on the response of this check.
Parsed == IsSome(response) /\ pc \notin {"agent", "parse"}

output == The(response).output

\* C5: whatever the agent replied, check_completion never raises.
C5_NeverRaises == pc /= "raised"

\* None of the three strategies finds valid JSON in the reply.
NoStrategyYields(reply) ==
    /\ FencedJson(reply) = None
    /\ _extract_json_from_text(reply) = None
    /\ WholeJson(reply) = None

Unparsable == Parsed /\ The(response).success /\ NoStrategyYields(output)

\* What the unparsable result has apart from its summary.
UnparsableShape ==
    /\ IsSome(result)
    /\ The(result).is_complete = JBool(FALSE)
    /\ The(result).status = StatusPending
    /\ The(result).pending_items = JArr(<<JStr(ManualReviewMarker)>>)
    /\ The(result).raw_response = output

Prefix(reply) == [i \in 1..Min(Len(reply), SummaryLimit) |-> reply[i]]

\* C6 as stated: a successful call whose reply no strategy can parse gives
\* is_complete false, status pending, the manual-review marker as the only
\* pending item, the first 200 characters of the reply as summary and the
\* reply as raw_response.
C6_SummaryIsPrefix ==
    Unparsable =>
        /\ UnparsableShape
        /\ The(result).summary = JStr(Prefix(output))

\* C6: a successful call whose reply no strategy can parse gives
\* is_complete false, status pending, the manual-review marker as the only
\* pending item and the reply as raw_response; the summary is the first
\* 200 characters of a reply that is not empty, and the fixed no-output
\* text for an empty reply.
C6_Unparsable ==
    Unparsable =>
        /\ UnparsableShape
        /\ The(result).summary =
               JStr(IF output = <<>> THEN NoOutputSummary ELSE Prefix(output))

\* A reply longer than the bound, cut to it.
C6_Witness ==
    /\ Unparsable
    /\ Len(output) > SummaryLimit
    /\ Len(The(result).summary.v) = SummaryLimit
    /\ returned = result

FailedCall == Parsed /\ ~The(response).success

\* C7 as stated: a failed agent call gives, without any exception and
\* whatever its output holds, is_complete false, status pending, exactly
\* one pending item and the raw error as summary.
C7_SummaryIsError ==
    FailedCall =>
        /\ pc /= "raised"
        /\ IsSome(result)
        /\ The(result).is_complete = JBool(FALSE)
        /\ The(result).status = StatusPending
        /\ The(result).pending_items.t = "arr"
        /\ Len(The(result).pending_items.v) = 1
        /\ The(result).summary = JStr(The(response).error)

\* C7: a failed agent call gives, without any exception and without any
\* JSON taken from its output, is_complete false, status pending, exactly
\* one pending item, which is the execution-failure prefix followed by the
\* raw error, the fixed could-not-check text as summary, and the output as
\* raw_response.
C7_FailureShortCircuit ==
    FailedCall =>
        /\ pc /= "raised"
        /\ json_str = None
        /\ IsSome(result)
        /\ The(result).is_complete = JBool(FALSE)
        /\ The(result).status = StatusPending
        /\ The(result).pending_items =
               JArr(<<JStr(ExecFailedPrefix \o The(response).error)>>)
        /\ The(result).summary = JStr(ExecFailedSummary)
        /\ The(result).raw_response = output
        /\ The(result).newly_completed = JArr(<<>>)

\* A failed call whose output is an object that says is_complete true has
\* returned a result that says false, and its one pending item is in the
\* store.
C7_Witness ==
    /\ FailedCall
    /\ output = ObjComplete
    /\ pc = "idle"
    /\ IsSome(returned)
    /\ The(returned).is_complete = JBool(FALSE)
    /\ Len(items) = 1
    /\ items[1] = TodoItem(JStr(ExecFailedPrefix \o The(response).error), FALSE)

\* The fields a result takes from parsed data.
BuiltFrom(data) ==
    /\ IsSome(result)
    /\ The(result).is_complete = DictGet(data.v, KeyIsComplete, JBool(FALSE))
    /\ The(result).pending_items = DictGet(data.v, KeyPendingItems, JArr(<<>>))
    /\ The(result).newly_completed =
           DictGet(data.v, KeyNewlyCompleted, JArr(<<>>))
    /\ The(result).summary = DictGet(data.v, KeySummary, JStr(<<>>))

\* C8: for a successful call the JSON text the parser settles on is the
\* one of the fenced block when that is valid JSON, whatever braces stand
\* elsewhere in the reply; otherwise the one of the balanced-brace scan when
\* that finds one; otherwise the whole trimmed reply when that is valid
\* JSON; and when that text is an object the result is built from it.
C8_StrategyOrder ==
    (Parsed /\ The(response).success) =>
        LET fenced == FencedJson(output)
            braces == _extract_json_from_text(output)
            whole == WholeJson(output)
        IN  /\ IsSome(fenced) => json_str = fenced
            /\ (fenced = None /\ IsSome(braces)) => json_str = braces
            /\ (fenced = None /\ braces = None) => json_str = whole
            /\ IsSome(json_str) =>
                  LET data == JsonLoads(The(json_str)).val
                  IN  data.t = "obj" => BuiltFrom(data)

\* An object that says is_complete true stands before a fenced block whose
\* object does not say so: the result is built from the fenced one.
C8_Witness ==
    /\ Parsed
    /\ The(response).success
    /\ output = ObjComplete \o <<NL>> \o Fenced(JsonTag, ObjPending)
    /\ _extract_json_from_text(output) = Some(ObjComplete)
    /\ json_str = Some(ObjPending)
    /\ IsSome(returned)
    /\ The(returned).is_complete = JBool(FALSE)
    /\ The(returned).pending_items = JArr(<<JStr(<<"a">>)>>)

-----------------------------------------------------------------------------
(* The balanced-brace scan                                                 *)

Extracted == pc = "extracted"

text == TextOf(The(call))

Span(t, start) == SubSeq(t, start, BraceClose(t, start))

\* The "{" positions whose span closes.
ClosedStarts(t) ==
    {p \in 1..Len(t) : t[p] = "{" /\ BraceClose(t, p) /= 0}

IsJsonObject(t) == t /= <<>> /\ t[1] = "{" /\ IsJson(t)

\* No part of the text is a JSON object.
NoObjectIn(t) ==
    \A i \in 1..Len(t), j \in 1..Len(t) :
        (i <= j /\ t[i] = "{") => ~IsJson(SubSeq(t, i, j))

\* C10: when the text is one JSON object between a prose before it and a
\* prose after it, neither of which holds a JSON object, while either may
\* hold unmatched braces and groups that are no JSON and the object may
\* hold nested objects and braces in its strings, the scan returns exactly
\* that object.
C10_SingleObjectRecovered ==
    (/\ Extracted
     /\ IsJsonObject(The(call).object)
     /\ NoObjectIn(The(call).before)
     /\ NoObjectIn(The(call).after))
        => json_str = Some(The(call).object)

-----------------------------------------------------------------------------
(* Defaults of the parsed fields                                           *)

\* The members of an object that have the key.
MembersWith(members, key) == {i \in 1..Len(members) : members[i].k = key}

\* What the object gives for the key (the last member when the key is
\* repeated), or the default when the key is absent.
GivenOr(members, key, default) ==
    IF MembersWith(members, key) = {} THEN default
    ELSE members[CHOOSE i \in MembersWith(members, key) :
                    \A j \in MembersWith(members, key) : j <= i].x

\* The parser settled on a JSON text that is an object.
ParsedObject ==
    /\ Parsed
    /\ The(response).success
    /\ IsSome(json_str)
    /\ JsonLoads(The(json_str)).val.t = "obj"

\* C11: when the JSON text the parser settled on is an object, the parse
\* gives a result; every field the object lacks has its default
\* (is_complete false, status pending, pending_items empty, newly_completed
\* empty, summary empty); a status that is none of completed, in_progress
\* and pending is replaced by pending; and every other field, is_complete
\* included, is what the object gives.
C11_DefaultsAndStatus ==
    ParsedObject =>
        LET members == JsonLoads(The(json_str)).val.v
            status == GivenOr(members, KeyStatus, JStr(StatusPending))
        IN  /\ IsSome(result)
            /\ The(result).is_complete =
                   GivenOr(members, KeyIsComplete, JBool(FALSE))
            /\ The(result).pending_items =
                   GivenOr(members, KeyPendingItems, JArr(<<>>))
            /\ The(result).newly_completed =
                   GivenOr(members, KeyNewlyCompleted, JArr(<<>>))
            /\ The(result).summary = GivenOr(members, KeySummary, JStr(<<>>))
            /\ The(result).status \in
                   {StatusCompleted, StatusInProgress, StatusPending}
            /\ The(result).status =
                   IF status \in {JStr(StatusCompleted), JStr(StatusInProgress)}
                   THEN status.v ELSE StatusPending

\* A reply with is_complete true, the unknown status ok, one pending item
\* and no summary has been returned as complete, pending, with that item
\* and the empty summary.
C11_Witness ==
    /\ ParsedObject
    /\ output = ReplyCompleteWithPending
    /\ IsSome(returned)
    /\ The(returned).is_complete = JBool(TRUE)
    /\ The(returned).status = StatusPending
    /\ The(returned).pending_items = JArr(<<JStr(<<"b">>)>>)
    /\ The(returned).summary = JStr(<<>>)
    /\ The(returned).newly_completed = JArr(<<>>)

-----------------------------------------------------------------------------
(* The Iteration Loop Driver: TaskRunner.run, as cli.py creates and runs   *)
(* it.  Each pass executes the task with the execution agent, evaluates    *)
(* with check_completion above, and decides.                               *)

MaxStart == 2

RunTask == <<"t">>
StartIterations == 1..MaxStart
RunIterations == 1..(MaxStart + MaxChecks - 1)
CarriedItems == {<<>>, <<<<"x">>, <<"y">>>>}

\* Python's truth value of a JSON value, as "if result.is_complete" takes it.
Truthy(v) ==
    IF v.t = "null" THEN FALSE
    ELSE IF v.t = "bool" THEN v.v
    ELSE IF v.t = "num" THEN v.v /= <<"0">>
    ELSE v.v /= <<>>

\* The pending items of a result as the texts the next context is built of.
PendingTexts(v) ==
    [i \in 1..Len(Entries(v)) |->
        IF Entries(v)[i].t = "str" THEN Entries(v)[i].v ELSE <<"?">>]

\* The context of an evaluation: the pending items carried so far, one per
\* line; the empty context when there are none.
ContextOf(pending_items) == Join(pending_items, <<NL>>)

\* TaskRunner(max_iterations, start_iteration, initial_pending_items): the
\* state of the loop before its first pass.
TaskRunner(max_iterations, start_iteration, initial_pending_items) ==
    [phase |-> "execute", executing |-> FALSE,
     iteration |-> start_iteration, start_iteration |-> start_iteration,
     max_iterations |-> max_iterations,
     pending_items |-> initial_pending_items,
     initial_pending_items |-> initial_pending_items,
     passes |-> 0, evaluated |-> <<>>]

\* What earlier runs of the session left behind when the run starts at s:
\* the store with the carried items pending, and one result file for each
\* iteration below s.
PriorStore(pending_items) ==
    TodoList([i \in 1..Len(pending_items) |->
                 TodoItem(JStr(pending_items[i]), FALSE)], RunTask)

PriorResult(i, pending_items) ==
    [SupervisorResult(JBool(FALSE), StatusInProgress,
                      JArr([j \in 1..Len(pending_items) |->
                               JStr(pending_items[j])]),
                      JStr(<<"p">>), <<>>, JArr(<<>>))
        EXCEPT !.iteration = i]

PriorResultFiles(s, pending_items) ==
    [i \in RunIterations |->
        IF i < s THEN Some(ResultToDict(PriorResult(i, pending_items)))
        ELSE None]

\* The replies of the evaluating agent during a run.
RunResponses ==
    {AgentResponse(TRUE, out, <<>>) :
        out \in {ReplyPendingA, ReplyDoneA, ReplyCompleteWithPending,
                 ReplySorry, ReplyNumber, ReplyPendingNull}}
        \cup {AgentResponse(FALSE, ReplyDoneA, <<"e">>)}

\* A runner created without the state of the session it continues.
RunTaskFromOne(max_iterations, start_iteration, pending_items) ==
    TaskRunner(max_iterations, 1, <<>>)

\* _run_task: the runner is created with the starting iteration and the
\* pending items main read from the session (1 and none for a new task).
_run_task(max_iterations, start_iteration, pending_items) ==
    TaskRunner(max_iterations, start_iteration, pending_items)

\* _run_task has created the runner; a run that starts above 1 continues a
\* session.
InitRun ==
    /\ \E n \in 1..MaxChecks, s \in StartIterations, p \in CarriedItems :
           /\ s = 1 => p = <<>>
           /\ runner = Some(_run_task(n, s, p))
           /\ todo_file = IF s > 1 THEN Some(TodoToDict(PriorStore(p)))
                          ELSE None
           /\ result_files = PriorResultFiles(s, p)
    /\ todo_list = None
    /\ pc = "idle"
    /\ call = None
    /\ response = None
    /\ json_str = None
    /\ result = None
    /\ returned = None
    /\ checks = 0
    /\ last = NoOp
    /\ cli = None

run == The(runner)

\* execute: the task is handed to the execution agent.
ExecuteBegin ==
    /\ IsSome(runner)
    /\ run.phase = "execute"
    /\ ~run.executing
    /\ pc = "idle"
    /\ runner' = Some([run EXCEPT !.executing = TRUE])
    /\ UNCHANGED <<todo_list, todo_file, result_files, pc, call, response,
                   json_str, result, returned, checks, last,
                   cli>>

\* The execution agent returns, with or without success.
ExecuteReturns ==
    /\ IsSome(runner)
    /\ run.phase = "execute"
    /\ run.executing
    /\ runner' = Some([run EXCEPT !.executing = FALSE, !.phase = "evaluate"])
    /\ UNCHANGED <<todo_list, todo_file, result_files, pc, call, response,
                   json_str, result, returned, checks, last>>

\* evaluate: check_completion is called with the context built from the
\* pending items carried so far, the number of the pass, and saving on.
EvaluateBegin ==
    /\ IsSome(runner)
    /\ run.phase = "evaluate"
    /\ CheckBegin(RunTask, ContextOf(run.pending_items), run.iteration, TRUE)
    /\ runner' = Some([run EXCEPT !.phase = "evaluating"])
    /\ UNCHANGED cli

\* decide: complete ends the run with success; the last pass ends it
\* incomplete; otherwise the next pass starts with the pending items of
\* this result.
Decide ==
    /\ IsSome(runner)
    /\ run.phase = "evaluating"
    /\ pc = "idle"
    /\ IsSome(returned)
    /\ runner' = Some(
           [run EXCEPT
               !.passes = @ + 1,
               !.evaluated = Append(@, run.iteration),
               !.phase =
                   IF Truthy(The(returned).is_complete) THEN "success"
                   ELSE IF run.passes + 1 >= run.max_iterations
                        THEN "incomplete"
                        ELSE "execute",
               !.iteration =
                   IF Truthy(The(returned).is_complete)
                      \/ run.passes + 1 >= run.max_iterations
                   THEN @ ELSE @ + 1,
               !.pending_items =
                   IF Truthy(The(returned).is_complete)
                      \/ run.passes + 1 >= run.max_iterations
                   THEN @ ELSE PendingTexts(The(returned).pending_items)])
    /\ UNCHANGED <<todo_list, todo_file, result_files, pc, call, response,
                   json_str, result, returned, checks, last,
                   cli>>

\* An exception of check_completion leaves run; _run_task prints it and
\* raises it again.
EvaluateRaises ==
    /\ IsSome(runner)
    /\ run.phase = "evaluating"
    /\ pc = "raised"
    /\ runner' = Some([run EXCEPT !.phase = "error"])
    /\ UNCHANGED <<todo_list, todo_file, result_files, pc, call, response,
                   json_str, result, returned, checks, last,
                   cli>>

NextRun ==
    \/ ExecuteBegin
    \/ ExecuteReturns /\ UNCHANGED cli
    \/ EvaluateBegin
    \/ \E resp \in RunResponses : AgentReturns(resp)
    \/ Parse
    \/ Merge
    \/ WriteResult
    \/ Decide
    \/ EvaluateRaises

SpecRun == InitRun /\ [][NextRun]_vars

\* The steps of NextRun other than Parse.
RunStep ==
    \/ ExecuteBegin
    \/ ExecuteReturns /\ UNCHANGED cli
    \/ EvaluateBegin
    \/ \E resp \in RunResponses : AgentReturns(resp)
    \/ Merge
    \/ WriteResult
    \/ Decide
    \/ EvaluateRaises

\* _parse_response returns or raises.
ParseEnds == pc = "parse" /\ pc' \in {"merge", "raised"}

\* The loop is one thread: every blocking call returns or raises, and the
\* step after it is taken.
SpecRunFair == SpecRun /\ WF_vars(RunStep) /\ WF_pc(ParseEnds)

-----------------------------------------------------------------------------
(* Properties of the loop, under SpecRun and SpecRunFair                   *)

RunTerminal == IsSome(runner) /\ run.phase \in {"success", "incomplete"}

\* The decisions taken so far: the passes evaluated are numbered from the
\* starting index upwards and are at most max_iterations; success follows an
\* evaluation that is complete, whatever its pending items; incomplete
\* follows the last pass when it is not complete; and no pass is left once
\* the last one is decided.
RunDecisions ==
    /\ run.passes <= run.max_iterations
    /\ run.evaluated =
           [k \in 1..run.passes |-> run.start_iteration + k - 1]
    /\ run.phase = "success" =>
           /\ Truthy(The(returned).is_complete)
           /\ ~run.executing
    /\ run.phase = "incomplete" =>
           /\ run.passes = run.max_iterations
           /\ ~Truthy(The(returned).is_complete)
    /\ run.passes = run.max_iterations => RunTerminal

\* C12: with iteration limit N and starting index s the loop evaluates the
\* passes s, s+1, ... in order, never more than N of them, ends with
\* success right after the first complete evaluation (pending items or
\* not), ends incomplete when the N-th evaluation is not complete, and
\* every run reaches one of these two terminal states.
C12_ReachesTerminal == [](IsSome(runner) => RunDecisions) /\ <>RunTerminal

\* The positions check_completion passes through, in the order of its
\* statements.
StepOrder ==
    {<<"idle", "agent">>, <<"raised", "agent">>, <<"agent", "parse">>,
     <<"parse", "merge">>, <<"parse", "raised">>, <<"merge", "write">>,
     <<"merge", "raised">>, <<"write", "idle">>}

\* At most one agent call is outstanding, and a pass after the first is
\* executed only when the pass before it has saved the store and written
\* its result file.
OneAtATime ==
    /\ ~(run.executing /\ pc /= "idle")
    /\ (run.phase = "execute" /\ run.iteration > run.start_iteration) =>
           /\ IsSome(result_files[run.iteration - 1])
           /\ The(result_files[run.iteration - 1]).iteration
                  = run.iteration - 1
           /\ The(result_files[run.iteration - 1]) = ResultToDict(The(returned))
           /\ todo_file = Some(TodoToDict(The(todo_list)))

\* Inside check_completion: the agent call, then the parse, then the merge
\* with the save of the store, then the result file, then the return.
InOrder ==
    /\ pc' /= pc => <<pc, pc'>> \in StepOrder
    /\ response' /= response /\ IsSome(response') => pc = "agent"
    /\ result' /= result /\ IsSome(result') => pc = "parse"
    /\ todo_file' /= todo_file => pc = "merge" /\ pc' = "write"
    /\ result_files' /= result_files => pc = "write" /\ pc' = "idle"
    /\ returned' /= returned /\ IsSome(returned') => pc = "write"

\* C13: at most one agent invocation, execution or evaluation, is
\* outstanding at any time; the execute step of a pass begins only after
\* the evaluate step of the pass before it has saved the Todo Store and
\* written its result file; and check_completion goes agent call, parse,
\* merge, Todo Store save, result file write, return.
C13_StrictSequencing == [](IsSome(runner) => OneAtATime) /\ [][InOrder]_vars

\* The execution agent is running the second pass of a run; the first pass
\* left its result file and the saved store.
C13_Witness ==
    /\ IsSome(runner)
    /\ run.executing
    /\ run.iteration = run.start_iteration + 1
    /\ IsSome(result_files[run.start_iteration])
    /\ IsSome(todo_file)

-----------------------------------------------------------------------------
(* Persistence of the Todo Store, under Spec                               *)

\* The todo file holds the list that is in memory.
OnDiskIsInMemory == todo_file = Some(TodoToDict(The(todo_list)))

\* C14 as stated: every mutation of the store is persisted right after it,
\* so at every point of check_completion, the outstanding agent call
\* included, the todo file holds the list that is in memory.
C14_PersistedImmediately == IsSome(todo_list) => OnDiskIsInMemory

\* The only write of the todo file is the save that ends the merge, and it
\* writes the whole list in memory.
SavedByMergeOnly ==
    todo_file' /= todo_file =>
        /\ pc = "merge"
        /\ pc' = "write"
        /\ todo_file' = Some(TodoToDict(The(todo_list')))

\* C14, amended: the mutations of one check_completion call (the
\* overwritten task_description, the marks, the additions) are persisted
\* together by the one save that ends the merge; the todo file changes at
\* no other step, and whenever check_completion has returned it holds the
\* list that is in memory.
C14_SavedOnceAfterMerge ==
    /\ []((pc \in {"write", "idle"} /\ IsSome(todo_list)) => OnDiskIsInMemory)
    /\ [][SavedByMergeOnly]_vars

\* A second check_completion, called with another task, has returned: the
\* file holds the new task description and the items of the store.
C14_Witness ==
    /\ pc = "idle"
    /\ checks = 2
    /\ IsSome(returned)
    /\ IsSome(todo_list)
    /\ The(todo_list).task_description = <<"u">>
    /\ The(todo_list).items /= <<>>
    /\ OnDiskIsInMemory

-----------------------------------------------------------------------------
(* A run that is killed, and the evaluator of the process started after    *)
(* it.  TodoList.save and SupervisorResult.save_to_file open their file    *)
(* for writing, which empties it, and then write the JSON text into it: a  *)
(* kill between the two leaves a file that is cut short.                   *)

\* A file whose JSON text is cut short.
CutFile == [t |-> "cut", v |-> <<>>]

Loadable(file) == file = None \/ The(file).t = "obj"

\* The process is killed while the execution agent or the evaluating agent
\* runs, or in the parse: no file is being written.
KillOutsideWrites ==
    /\ pc \in {"idle", "agent", "parse", "raised"}
    /\ UNCHANGED <<todo_file, result_files>>

\* The process is killed in _update_todo_list: before TodoList.save opened
\* the todo file, while it writes it, or after it closed it.
KillInMerge(at) ==
    /\ pc = "merge"
    /\ \E u \in {_update_todo_list(The(todo_list), The(result))} :
           /\ at /= "before" => u.saved
           /\ todo_file' = IF at = "before" THEN todo_file
                           ELSE IF at = "during" THEN Some(CutFile)
                           ELSE Some(TodoToDict(u.todo))
    /\ UNCHANGED result_files

\* The process is killed at the result file: before save_to_file opened
\* it, while it writes it, or after it closed it.
KillInWrite(at) ==
    /\ pc = "write"
    /\ result_files' =
           IF at = "before" THEN result_files
           ELSE [result_files EXCEPT ![The(call).iteration] =
                    IF at = "during" THEN Some(CutFile)
                    ELSE Some(ResultToDict(The(result)))]
    /\ UNCHANGED todo_file

\* The kill: the memory of the process is gone, the files stay.
Kill(at) ==
    /\ IsSome(runner)
    /\ run.phase \in {"execute", "evaluate", "evaluating"}
    /\ \/ at = "before" /\ KillOutsideWrites
       \/ KillInMerge(at)
       \/ KillInWrite(at)
    /\ runner' = Some([run EXCEPT !.phase = "killed", !.executing = FALSE])
    /\ todo_list' = None
    /\ pc' = "idle"
    /\ call' = None
    /\ response' = None
    /\ json_str' = None
    /\ result' = None
    /\ returned' = None
    /\ last' = NoOp
    /\ UNCHANGED checks

\* A new SupervisorAgent on the same files reads its todo_list for the
\* first time: TodoList.load, where json.load raises on a file cut short.
Reload ==
    /\ IsSome(runner)
    /\ run.phase = "killed"
    /\ IF Loadable(todo_file)
       THEN /\ todo_list' = Some(TodoLoad(todo_file))
            /\ pc' = "idle"
       ELSE /\ todo_list' = None
            /\ pc' = "raised"
    /\ runner' = Some([run EXCEPT !.phase = "reloaded"])
    /\ UNCHANGED <<todo_file, result_files, call, response, json_str, result,
                   returned, checks, last,
                   cli>>

NextKill ==
    \/ NextRun
    \/ \E at \in {"before", "during", "after"} : Kill(at) /\ UNCHANGED cli
    \/ Reload

SpecKill == InitRun /\ [][NextKill]_vars

\* A kill leaves in the todo file what the last save wrote: the save
\* before the kill, or the one the kill came after.
KillKeepsSaved ==
    (IsSome(runner) /\ run.phase /= "killed" /\ The(runner').phase = "killed")
        => \/ todo_file' = todo_file
           \/ /\ pc = "merge"
              /\ todo_file' = Some(TodoToDict(
                     _update_todo_list(The(todo_list), The(result)).todo))

\* C15: whenever the process is killed during a run, the todo file is
\* absent or a complete, loadable list at every moment, it holds what the
\* last save that was reached wrote, and a new evaluator on the same file
\* loads exactly that store.
C15_InterruptionSafe ==
    /\ [](Loadable(todo_file))
    /\ [][KillKeepsSaved]_vars
    /\ []((IsSome(runner) /\ run.phase = "reloaded") =>
              pc /= "raised" /\ todo_list = Some(TodoLoad(todo_file)))

-----------------------------------------------------------------------------
(* One evaluator, and another process that writes the todo file between    *)
(* its evaluations.                                                        *)

\* The item the other process adds; no reply of the agent names it.
ExternalItem == JStr(<<"z">>)

\* Another process loads the todo file, adds its item and saves.
ExternalWrite ==
    /\ pc = "idle"
    /\ ExternalItem \notin Contents(TodoLoad(todo_file).items)
    /\ todo_file' = Some(TodoToDict(
           [TodoLoad(todo_file) EXCEPT
               !.items = add_item(@, ExternalItem, FALSE)]))
    /\ UNCHANGED <<todo_list, result_files, pc, call, response, json_str,
                   result, returned, checks, last, runner, cli>>

\* The next check_completion of the session: same task, no context, the
\* next iteration number, saving on.
CheckNext ==
    /\ CheckBegin(RunTask, <<>>, checks + 1, TRUE)
    /\ UNCHANGED <<runner, cli>>

NextShared ==
    \/ CheckNext
    \/ \E resp \in RunResponses : AgentReturns(resp)
    \/ Parse
    \/ Merge
    \/ WriteResult
    \/ ExternalWrite

SpecShared == Init /\ [][NextShared]_vars

OnDisk(content) ==
    IsSome(todo_file) /\ content \in Contents(TodoLoad(todo_file).items)

InMemory(content) ==
    IsSome(todo_list) /\ content \in Contents(The(todo_list).items)

\* A step that begins a check_completion call.
CallBegins == pc /= "agent" /\ pc' = "agent"

\* A step in which the evaluator saves the store.
StoreSaved == pc = "merge" /\ todo_file' /= todo_file

\* C16 as stated: every check_completion call starts from the list in the
\* todo file, so an item written to the file by another process between
\* two evaluations is in the store the next evaluation works on and is
\* still in the file after that evaluation's save.
C16_ReloadedEveryCall ==
    /\ [][CallBegins => The(todo_list').items = TodoLoad(todo_file).items]_vars
    /\ [][(StoreSaved /\ OnDisk(ExternalItem)) => OnDisk(ExternalItem)']_vars

\* C16, amended: the todo file is read on the first access of an evaluator
\* only; every later call starts from the list kept in memory, and its
\* save writes that list with the merge applied, so an item another
\* process wrote to the file in between is kept only if it is in memory.
C16_LoadedOnFirstAccessOnly ==
    /\ [][CallBegins =>
              The(todo_list').items =
                  IF IsSome(todo_list) THEN The(todo_list).items
                  ELSE TodoLoad(todo_file).items]_vars
    /\ [][StoreSaved => (OnDisk(ExternalItem)' <=> InMemory(ExternalItem))]_vars

\* The second evaluation of an evaluator is waiting for the agent; the
\* other process wrote its item after the first evaluation, and the list
\* in memory lacks it.
C16_Witness ==
    /\ pc = "agent"
    /\ checks = 2
    /\ OnDisk(ExternalItem)
    /\ ~InMemory(ExternalItem)
    /\ The(todo_list).items /= <<>>

-----------------------------------------------------------------------------
(* The result files, under SpecRun                                         *)

DigitChars == <<"0", "1", "2", "3", "4", "5", "6", "7", "8", "9">>

\* The decimal digits of a natural number.
RECURSIVE Decimal(_)
Decimal(n) ==
    IF n < 10 THEN <<DigitChars[n + 1]>>
    ELSE Decimal(n \div 10) \o <<DigitChars[(n % 10) + 1]>>

\* f"{iteration:03d}": the digits, with zeros in front up to three places.
ZeroPadded(n) ==
    IF n < 10 THEN <<"0", "0">> \o Decimal(n)
    ELSE IF n < 100 THEN <<"0">> \o Decimal(n)
    ELSE Decimal(n)

\* get_result_file_path: the name of the result file of an iteration.
get_result_file_path(iteration) ==
    <<"iteration_">> \o ZeroPadded(iteration) \o <<".json">>

\* The check_completion call in progress writes the file named after its
\* iteration, with its result stamped with that iteration, and no file
\* with another name is touched.
WritesOwnFileOnly ==
    result_files' /= result_files =>
        /\ pc = "write"
        /\ result_files'[The(call).iteration] = Some(ResultToDict(The(result)))
        /\ The(result_files'[The(call).iteration]).iteration
               = The(call).iteration
        /\ \A j \in DOMAIN result_files :
               j /= The(call).iteration =>
                   /\ get_result_file_path(j)
                          /= get_result_file_path(The(call).iteration)
                   /\ result_files'[j] = result_files[j]

\* The files of the iterations the loop has left behind, those before the
\* starting index of a resumed run included, stay as they are.
PastFilesKept ==
    IsSome(runner) =>
        \A j \in DOMAIN result_files :
            j < run.iteration => result_files'[j] = result_files[j]

\* C17: a check_completion call for iteration i with saving on writes the
\* file keyed by the zero-padded i with its result stamped iteration = i,
\* and creates, changes or deletes no result file of another iteration;
\* once the loop, a resumed one included, is past iteration i, the file of
\* iteration i is not written again.
C17_AppendOnly == [][WritesOwnFileOnly /\ PastFilesKept]_vars

\* A resumed run has written the file of its second pass; the files of the
\* earlier iterations are still there.
C17_Witness ==
    /\ IsSome(runner)
    /\ run.start_iteration = 2
    /\ run.passes = 2
    /\ \A j \in 1..3 : IsSome(result_files[j])
    /\ The(result_files[3]).iteration = 3
    /\ The(result_files[1]) = ResultToDict(PriorResult(1, run.initial_pending_items))

-----------------------------------------------------------------------------
(* TodoList.save and TodoList.load as texts: json.dump with                *)
(* ensure_ascii=False and indent=2 into a file opened for writing in       *)
(* UTF-8, and json.load of that file.                                      *)

\* A lone surrogate: a character of a str that UTF-8 cannot encode.
Surrogate == "<surrogate>"

Spaces(n) == [i \in 1..n |-> " "]

\* json.encoder.py_encode_basestring: the text in quotes, with the quote,
\* the backslash and the newline escaped and every other character of the
\* alphabet as it is.
EscapedChar(c) ==
    IF c = Q THEN <<BS, Q>>
    ELSE IF c = BS THEN <<BS, BS>>
    ELSE IF c = NL THEN <<BS, "n">>
    ELSE <<c>>

RECURSIVE EscapedText(_)
EscapedText(t) ==
    IF t = <<>> THEN <<>> ELSE EscapedChar(Head(t)) \o EscapedText(Tail(t))

DumpString(t) == <<Q>> \o EscapedText(t) \o <<Q>>

\* What stands between two entries of a list or dict at the level, and
\* before the closing bracket of the level above.
Break(level) == <<NL>> \o Spaces(2 * level)

\* json.dumps(v, ensure_ascii=False, indent=2) of a value that stands at
\* the level.  A number is written with the digits it was read with.
RECURSIVE JsonDumps(_, _)
JsonDumps(v, level) ==
    IF v.t = "null" THEN <<"n", "u", "l", "l">>
    ELSE IF v.t = "bool" THEN (IF v.v THEN TrueText ELSE FalseText)
    ELSE IF v.t = "num" THEN v.v
    ELSE IF v.t = "str" THEN DumpString(v.v)
    ELSE IF v.v = <<>> THEN (IF v.t = "arr" THEN <<"[", "]">> ELSE <<"{", "}">>)
    ELSE IF v.t = "arr"
         THEN <<"[">> \o Break(level + 1)
                  \o Join([i \in 1..Len(v.v) |-> JsonDumps(v.v[i], level + 1)],
                          <<",">> \o Break(level + 1))
                  \o Break(level) \o <<"]">>
         ELSE <<"{">> \o Break(level + 1)
                  \o Join([i \in 1..Len(v.v) |->
                              DumpString(v.v[i].k) \o <<":", " ">>
                                  \o JsonDumps(v.v[i].x, level + 1)],
                          <<",">> \o Break(level + 1))
                  \o Break(level) \o <<"}">>

\* What is in the file when the write of the text stops at the first
\* string that UTF-8 cannot encode: the text before that string.
WrittenBefore(t, p) ==
    SubSeq(t, 1, (CHOOSE k \in 1..p :
                     /\ t[k] = Q
                     /\ BackslashesBefore(t, 1, k) % 2 = 0
                     /\ \A m \in (k + 1)..p :
                            ~(t[m] = Q /\ BackslashesBefore(t, 1, m) % 2 = 0))
                  - 1)

\* The file after t was written into it, and whether the write raised
\* UnicodeEncodeError.
WriteUtf8(t) ==
    IF \A k \in 1..Len(t) : t[k] /= Surrogate
    THEN [raised |-> FALSE, file |-> t]
    ELSE [raised |-> TRUE,
          file |-> WrittenBefore(t, First({k \in 1..Len(t) : t[k] = Surrogate}))]

\* TodoList.save
save(tl) == WriteUtf8(JsonDumps(TodoToDict(tl), 0))

\* TodoList.load of a file that exists: json.load raises on a text that is
\* no JSON.
load(file) ==
    IF JsonLoads(file).ok
    THEN [raised |-> FALSE, todo |-> TodoFromDict(JsonLoads(file).val)]
    ELSE [raised |-> TRUE, todo |-> EmptyTodoList]

RoundTripTexts ==
    {<<>>, <<"a">>, <<"b", " ", Q, "c", Q>>, <<BS, "n">>, <<"a", BS>>,
     <<"{", NL, "}">>, <<Surrogate>>}

RoundTripItems ==
    {TodoItem(JStr(t), f) : t \in RoundTripTexts, f \in BOOLEAN}

RoundTripLists ==
    {TodoList(its, d) :
        its \in UNION {[1..n -> RoundTripItems] : n \in 0..MaxEntries},
        d \in {<<>>, <<"t", Q, BS>>}}

\* A TodoList, about to be saved; call keeps it for the comparison.
InitRoundTrip ==
    /\ \E tl \in RoundTripLists :
           /\ todo_list = Some(tl)
           /\ call = Some(tl)
    /\ todo_file = None
    /\ result_files = NoResultFiles
    /\ pc = "idle"
    /\ response = None
    /\ json_str = None
    /\ result = None
    /\ returned = None
    /\ checks = 0
    /\ last = NoOp
    /\ runner = None
    /\ cli = None

\* tl.save(path); todo_file holds the text of the file.
Save ==
    /\ pc = "idle"
    /\ \E w \in {save(The(todo_list))} :
           /\ todo_file' = Some(w.file)
           /\ pc' = IF w.raised THEN "save raised" ELSE "saved"
    /\ todo_list' = None
    /\ UNCHANGED <<result_files, call, response, json_str, result, returned,
                   checks, last, runner, cli>>

\* TodoList.load(path), after the save.
Load ==
    /\ pc \in {"saved", "save raised"}
    /\ \E l \in {load(The(todo_file))} :
           /\ todo_list' = IF l.raised THEN None ELSE Some(l.todo)
           /\ pc' = IF l.raised THEN "load raised" ELSE "loaded"
    /\ UNCHANGED <<todo_file, result_files, call, response, json_str, result,
                   returned, checks, last, runner, cli>>

NextRoundTrip == Save \/ Load

SpecRoundTrip == InitRoundTrip /\ [][NextRoundTrip]_vars

\* C18: for every TodoList, save to a path and then load from the same
\* path gives a list with the same task_description and the same items, in
\* the same order, with the same content and completed flags.
C18_RoundTrip ==
    /\ pc \notin {"save raised", "load raised"}
    /\ pc = "loaded" =>
           /\ The(todo_list).task_description = The(call).task_description
           /\ The(todo_list).items = The(call).items

-----------------------------------------------------------------------------
(* The first check of a fresh session, under Spec                          *)

\* C19: where there is no todo file, load gives the empty TodoList (no
\* items, empty task_description) without an error, so the first
\* check_completion of a fresh session works on the empty store: its list
\* has no items, only the task description just set, and its prompt shows
\* no completed items.
C19_FreshLoadIsEmpty ==
    /\ todo_file = None =>
           TodoLoad(todo_file) = [items |-> <<>>, task_description |-> <<>>]
    /\ (checks = 1 /\ pc = "agent") =>
           /\ todo_file = None
           /\ todo_list = Some([items |-> <<>>,
                                task_description |-> The(call).task])
           /\ The(The(call).prompt).completed_items = <<JStr(NoneCompletedYet)>>

\* The first check_completion of a fresh session has called the agent.
C19_Witness ==
    /\ checks = 1
    /\ pc = "agent"
    /\ todo_file = None
    /\ todo_list = Some(TodoList(<<>>, <<"t">>))

-----------------------------------------------------------------------------
(* Resumption, under SpecRun                                               *)

\* The text has the part in it, character by character.
ContainsText(t, part) == \E k \in 1..(Len(t) + 1) : HasAt(t, k, part)

\* The first evaluation of the run is waiting for the agent.
FirstEvaluation == IsSome(runner) /\ run.passes = 0 /\ pc = "agent"

\* sess.get_continue_state, read off the result files the session has when
\* the run starts: the iteration after the last one that left a file, and
\* the pending items of that file.
ContinueStart ==
    1 + Cardinality({i \in DOMAIN result_files : IsSome(result_files[i])})

ContinuePending ==
    IF ContinueStart = 1 THEN <<>>
    ELSE PendingTexts(The(result_files[ContinueStart - 1]).pending_items)

\* C20: a run that continues a session with starting iteration s and
\* carried-over pending items P numbers its first pass s, and calls its
\* first evaluation with a context that has every item of P in it
\* verbatim; with items carried over, the prompt does not show the
\* first-check text.
C20_ResumedFirstPass ==
    FirstEvaluation =>
        /\ The(call).iteration = ContinueStart
        /\ \A k \in 1..Len(ContinuePending) :
               ContainsText(The(call).context, ContinuePending[k])
        /\ ContinuePending /= <<>> =>
               /\ The(call).context /= <<>>
               /\ The(The(call).prompt).context = The(call).context
               /\ The(The(call).prompt).context /= FirstCheck

\* A run continued at iteration 2 with the pending items x and y has
\* called its first evaluation.
C20_Witness ==
    /\ FirstEvaluation
    /\ ContinueStart = 2
    /\ ContinuePending = <<<<"x">>, <<"y">>>>
    /\ The(call).iteration = 2
    /\ ContainsText(The(call).context, <<"x">>)
    /\ ContainsText(The(call).context, <<"y">>)

-----------------------------------------------------------------------------
(* The aiaim command: main and _run_task around the runner                 *)

ExitCompleted == 0
ExitFailed == 1
ExitInterrupted == 130

\* The handle a session had bound before this process, and the handle the
\* execution agent exposes during it.
BoundHandle == <<"h", "0">>
ExposedHandle == <<"h", "1">>

\* The registry's entry of a session: its bound chat handle, or none.
SessionInfo(agent_chat_id) == [agent_chat_id |-> agent_chat_id]

proc == The(cli)

\* The status _run_task exits with once the run has returned.
ExitAlwaysCompleted(completed) == ExitCompleted

ExitCode(completed) == IF completed THEN ExitCompleted ELSE ExitFailed

\* main is entered: a new task (given or not), or --continue on a session
\* that is named or found (or not) and known to the registry (or not), with
\* its continue state; the files are what the session's earlier runs left.
InitCli ==
    /\ \E continue \in BOOLEAN, task \in {<<>>, RunTask},
          found \in BOOLEAN, out \in BOOLEAN,
          info \in {None, Some(SessionInfo(None)),
                    Some(SessionInfo(Some(BoundHandle)))},
          n \in 1..MaxChecks, s \in StartIterations, p \in CarriedItems :
           /\ s = 1 => p = <<>>
           /\ ~continue => found = FALSE /\ info = None /\ s = 1
           /\ continue => task = RunTask
           /\ (continue /\ (~found \/ info = None)) => s = 1
           /\ found = FALSE => info = None
           /\ cli = Some([pos |-> "main", continue |-> continue,
                          task |-> task, session_id |-> found,
                          session |-> info, chat_id |-> None,
                          obtained |-> None, output |-> out,
                          max_iterations |-> n, start_iteration |-> s,
                          pending_items |-> p, interrupted |-> FALSE,
                          exit |-> None])
           /\ todo_file = IF s > 1 THEN Some(TodoToDict(PriorStore(p)))
                          ELSE None
           /\ result_files = PriorResultFiles(s, p)
    /\ runner = None
    /\ todo_list = None
    /\ pc = "idle"
    /\ call = None
    /\ response = None
    /\ json_str = None
    /\ result = None
    /\ returned = None
    /\ checks = 0
    /\ last = NoOp

\* main and _run_task refuse to run: --continue finds no session, or the
\* registry does not know the session, or no task is given.
Refused ==
    IF proc.continue THEN ~proc.session_id \/ proc.session = None
    ELSE proc.task = <<>>

MainRefuses ==
    /\ IsSome(cli)
    /\ proc.pos = "main"
    /\ Refused
    /\ cli' = Some([proc EXCEPT !.pos = "exited",
                                !.exit = Some(ExitFailed)])
    /\ UNCHANGED <<todo_list, todo_file, result_files, pc, call, response,
                   json_str, result, returned, checks, last, runner>>

\* _run_task gets the session (a new one has no chat handle), reads its
\* chat handle and creates the runner.
RunTaskBegin ==
    /\ IsSome(cli)
    /\ proc.pos = "main"
    /\ ~Refused
    /\ \E info \in {IF proc.continue THEN The(proc.session)
                    ELSE SessionInfo(None)} :
           cli' = Some([proc EXCEPT !.pos = "running",
                                    !.session = Some(info),
                                    !.chat_id = info.agent_chat_id])
    /\ runner' = Some(_run_task(proc.max_iterations, proc.start_iteration,
                                proc.pending_items))
    /\ UNCHANGED <<todo_list, todo_file, result_files, pc, call, response,
                   json_str, result, returned, checks, last>>

\* The execution agent returns and exposes a chat handle or none; the runner
\* keeps the first one exposed.
ExecuteExposes ==
    /\ IsSome(cli)
    /\ ExecuteReturns
    /\ \E h \in {None, Some(ExposedHandle)} :
           cli' = Some([proc EXCEPT !.obtained = IF @ = None THEN h ELSE @])

\* The chat handle of the runner's result: the one the execution agent
\* exposed, else the one the runner was created with.
ResultChatId == IF IsSome(proc.obtained) THEN proc.obtained ELSE proc.chat_id

\* A binding that does not look at the handle the session had.
BindAlways(session, chat_id, result_chat_id) ==
    IF IsSome(result_chat_id) THEN Some(SessionInfo(result_chat_id))
    ELSE session

\* The session after the run returned: sess.bind_agent_chat_id is called
\* when the result has a handle and the session had none.
BindOnReturn(session, chat_id, result_chat_id) ==
    IF IsSome(result_chat_id) /\ chat_id = None
    THEN Some(SessionInfo(result_chat_id))
    ELSE session

\* KeyboardInterrupt during runner.run: the run stops where it is and
\* _run_task exits.
Interrupt ==
    /\ IsSome(cli)
    /\ proc.pos = "running"
    /\ \E at \in {"before", "during", "after"} : Kill(at)
    /\ cli' = Some([proc EXCEPT !.pos = "exited", !.interrupted = TRUE,
                                !.exit = Some(ExitInterrupted)])

\* runner.run returns its result; the handle of the result is bound to the
\* session when there is one and the session had none.
RunReturns ==
    /\ IsSome(cli)
    /\ proc.pos = "running"
    /\ RunTerminal
    /\ cli' = Some([proc EXCEPT
                       !.pos = "returned",
                       !.session = BindOnReturn(@, proc.chat_id,
                                                ResultChatId)])
    /\ UNCHANGED <<todo_list, todo_file, result_files, pc, call, response,
                   json_str, result, returned, checks, last, runner>>

\* The result is shown and, with --output, written to the output file,
\* where open may raise.
OutputDone(written) ==
    /\ IsSome(cli)
    /\ proc.pos = "returned"
    /\ ~written => proc.output
    /\ cli' = Some([proc EXCEPT !.pos = IF written THEN "shown"
                                        ELSE "raised"])
    /\ UNCHANGED <<todo_list, todo_file, result_files, pc, call, response,
                   json_str, result, returned, checks, last, runner>>

\* KeyboardInterrupt after runner.run returned, still inside the try.
InterruptAfterRun ==
    /\ IsSome(cli)
    /\ proc.pos \in {"returned", "shown"}
    /\ cli' = Some([proc EXCEPT !.pos = "exited", !.interrupted = TRUE,
                                !.exit = Some(ExitInterrupted)])
    /\ UNCHANGED <<todo_list, todo_file, result_files, pc, call, response,
                   json_str, result, returned, checks, last, runner>>

\* sys.exit with the status of the result.
Exits ==
    /\ IsSome(cli)
    /\ proc.pos = "shown"
    /\ cli' = Some([proc EXCEPT
                       !.pos = "exited",
                       !.exit = Some(ExitCode(run.phase = "success"))])
    /\ UNCHANGED <<todo_list, todo_file, result_files, pc, call, response,
                   json_str, result, returned, checks, last, runner>>

\* An exception of runner.run is printed and raised again.
RunRaises ==
    /\ IsSome(cli)
    /\ proc.pos = "running"
    /\ run.phase = "error"
    /\ cli' = Some([proc EXCEPT !.pos = "raised"])
    /\ UNCHANGED <<todo_list, todo_file, result_files, pc, call, response,
                   json_str, result, returned, checks, last, runner>>

NextCli ==
    \/ MainRefuses
    \/ RunTaskBegin
    \/ ExecuteBegin
    \/ ExecuteExposes
    \/ EvaluateBegin
    \/ \E resp \in RunResponses : AgentReturns(resp)
    \/ Parse
    \/ Merge
    \/ WriteResult
    \/ Decide
    \/ EvaluateRaises
    \/ Interrupt
    \/ RunReturns
    \/ \E written \in BOOLEAN : OutputDone(written)
    \/ InterruptAfterRun
    \/ Exits
    \/ RunRaises

SpecCli == InitCli /\ [][NextCli]_vars

-----------------------------------------------------------------------------
(* Properties of the command, under SpecCli                                *)

\* The run ended in runner.run's return and nothing interrupted the
\* process after it.
RunEnded(phase) ==
    /\ IsSome(runner)
    /\ run.phase = phase
    /\ proc.pos = "exited"
    /\ ~proc.interrupted

\* No iteration was run: no runner was created, no agent was called and the
\* files are as main found them.
NothingRun ==
    /\ runner = None
    /\ checks = 0
    /\ todo_list = None
    /\ todo_file = IF proc.start_iteration > 1
                   THEN Some(TodoToDict(PriorStore(proc.pending_items)))
                   ELSE None
    /\ result_files =
           PriorResultFiles(proc.start_iteration, proc.pending_items)

\* C21: the process exits 0 exactly when the run returned a completed
\* result (and was not interrupted before the exit), 1 when it returned an
\* incomplete one, 130 when a user interrupt came during the run, and 1
\* with no iteration run when the session is not found or no task is
\* given; an exception of the run is raised again and gives no status 0.
C21_ExitStatus ==
    IsSome(cli) =>
        /\ proc.exit = Some(ExitCompleted) <=> RunEnded("success")
        /\ RunEnded("incomplete") => proc.exit = Some(ExitFailed)
        /\ proc.interrupted =>
               /\ proc.exit = Some(ExitInterrupted)
               /\ IsSome(runner)
               /\ run.phase \in {"killed", "success", "incomplete"}
        /\ (proc.pos = "main" /\ Refused) => NothingRun
        /\ (proc.pos = "exited" /\ Refused) =>
               /\ proc.exit = Some(ExitFailed)
               /\ NothingRun
        /\ (IsSome(runner) /\ run.phase = "error") => proc.exit = None
        /\ proc.pos = "raised" => proc.exit = None
        /\ IsSome(proc.exit) <=> proc.pos = "exited"

\* A continued session completes in its second pass, its result is written
\* to the output file, and the process exits 0.
C21_Witness ==
    /\ IsSome(cli)
    /\ proc.continue
    /\ proc.output
    /\ RunEnded("success")
    /\ run.passes = 2
    /\ proc.exit = Some(ExitCompleted)

\* The handle bound to the session now.
BoundNow == The(proc.session).agent_chat_id

\* runner.run has returned its result to _run_task.
RunHasReturned ==
    /\ RunTerminal
    /\ proc.pos /= "running"

\* A session that had a handle keeps it.
NeverReplaced == IsSome(proc.chat_id) => BoundNow = proc.chat_id

\* C22 as stated: a session that had a handle keeps it, and the handle a
\* run obtained for a session without one is bound when the process has
\* exited, also when the exit is the one of an interrupted run.
C22_BoundAlsoWhenInterrupted ==
    (IsSome(cli) /\ IsSome(runner)) =>
        /\ NeverReplaced
        /\ (proc.pos = "exited" /\ proc.chat_id = None
                /\ IsSome(proc.obtained))
               => BoundNow = proc.obtained

\* C22, amended: a session that had a handle keeps it; the handle a run
\* obtained for a session without one is bound when runner.run has returned
\* its result, and not before; a run that is interrupted or raises before
\* it returns binds nothing.
C22_BoundWhenRunReturns ==
    (IsSome(cli) /\ IsSome(runner)) =>
        /\ NeverReplaced
        /\ BoundNow = IF RunHasReturned /\ proc.chat_id = None
                      THEN proc.obtained ELSE proc.chat_id

\* A run of a session without a handle is interrupted in its second pass,
\* after its first execution exposed a handle: nothing is bound.
C22_Witness ==
    /\ IsSome(cli)
    /\ IsSome(runner)
    /\ proc.interrupted
    /\ run.phase = "killed"
    /\ run.passes = 1
    /\ proc.chat_id = None
    /\ proc.obtained = Some(ExposedHandle)
    /\ BoundNow = None

-----------------------------------------------------------------------------
(* Progress of the Todo Store, under SpecStore                             *)

\* Every item of before stands at its place in after, with its content,
\* and completed when it was completed.
Monotonic(before, after) ==
    /\ Len(before) <= Len(after)
    /\ \A i \in 1..Len(before) :
           /\ after[i].content = before[i].content
           /\ before[i].completed => after[i].completed

\* C23: over any sequence of merges (and of add_item and mark_completed
\* calls) no item is removed, the store before a call is a prefix of the
\* store after it as far as contents go, and a completed item stays
\* completed, also when the call lists its content as pending.
C23_MonotonicProgress ==
    [][Monotonic(items, The(todo_list').items)]_vars

\* A merge has listed the content of a completed item as pending, together
\* with a new content: the item is still completed and the new one stands
\* behind it.
C23_Witness ==
    /\ last.op = "update"
    /\ Len(last.before) = 1
    /\ last.before[1].completed
    /\ \E j \in 1..Len(last.pending) : last.pending[j] = last.before[1].content
    /\ Len(items) = 2
    /\ items[1].completed
    /\ ~items[2].completed

\* The entries of a list, as a set.
Named(entries) == {entries[j] : j \in 1..Len(entries)}

\* C24: the newly_completed entries are all applied before any
\* pending_items entry: after a merge whose two lists both name a content
\* c, c is pending when the store did not have it before the call and
\* completed when it had it, and in both cases exactly one item has it.
C24_MarksBeforeAdds ==
    last.op = "update" =>
        \A c \in Named(last.newly) \cap Named(last.pending) :
            /\ Cardinality(Positions(items, c)) = 1
            /\ \A i \in Positions(items, c) :
                   items[i].completed = (c \in Contents(last.before))

\* One merge has named two contents in both lists, one that the store had
\* as pending and one that it did not have: the first is completed, the
\* second pending.
C24_Witness ==
    /\ last.op = "update"
    /\ Len(last.before) = 1
    /\ ~last.before[1].completed
    /\ Cardinality(Named(last.newly) \cap Named(last.pending)) = 2
    /\ Len(items) = 2
    /\ items[1].completed
    /\ ~items[2].completed

-----------------------------------------------------------------------------
(* Failed calls and unparsable replies among other evaluations             *)

FailureError == <<"e">>

\* The two synthetic pending items.
ExecFailedMarker == JStr(ExecFailedPrefix \o FailureError)
ManualMarker == JStr(ManualReviewMarker)
Markers == {ExecFailedMarker, ManualMarker}

\* A complete reply that names both markers as newly completed.
ReplyNamesMarkers ==
    FullReply(TrueText, StatusCompleted, <<>>,
              <<ManualReviewMarker, ExecFailedPrefix \o FailureError>>,
              <<"d">>)

\* The agent fails, answers without JSON or with nothing, or answers with
\* a reply that parses: complete or not, naming a marker or not.
FailureResponses ==
    {AgentResponse(FALSE, ReplyDoneA, FailureError)}
        \cup {AgentResponse(TRUE, out, <<>>) :
                 out \in {ReplySorry, <<>>, ReplyPendingA, ReplyDoneA,
                          ReplyCompleteWithPending, ReplyNamesMarkers}}

\* The store earlier evaluations left in the todo file.
EarlierStore ==
    TodoList(<<TodoItem(JStr(<<"a">>), TRUE), TodoItem(JStr(<<"b">>), FALSE)>>,
             RunTask)

InitFailure ==
    /\ todo_file \in {None, Some(TodoToDict(EarlierStore))}
    /\ todo_list = None
    /\ result_files = NoResultFiles
    /\ pc = "idle"
    /\ call = None
    /\ response = None
    /\ json_str = None
    /\ result = None
    /\ returned = None
    /\ checks = 0
    /\ last = NoOp
    /\ runner = None
    /\ cli = None

NextFailure ==
    \/ \E iteration \in Iterations, save_to_file \in BOOLEAN :
           CheckBegin(RunTask, <<>>, iteration, save_to_file)
               /\ UNCHANGED <<runner, cli>>
    \/ \E resp \in FailureResponses : AgentReturns(resp)
    \/ Parse
    \/ Merge
    \/ WriteResult

SpecFailure == InitFailure /\ [][NextFailure]_vars

\* The agent call of this check failed, or no strategy found JSON in its
\* reply, and the merge step is behind.
Failed ==
    /\ IsSome(response)
    /\ pc \notin {"agent", "parse", "merge"}
    /\ ~The(response).success \/ json_str = None

\* The marker of this check's failure.
MarkerNow ==
    IF The(response).success THEN ManualMarker
    ELSE JStr(ExecFailedPrefix \o The(response).error)

\* The merge of a failure: the items of before are as they were, and the
\* marker stands behind them as a pending item when no item had its
\* content; the todo file holds the store.
FailureMerge ==
    /\ pc \in {"write", "idle"}
    /\ last.op = "update"
    /\ SubSeq(items, 1, Len(last.before)) = last.before
    /\ IF MarkerNow \in Contents(last.before)
       THEN items = last.before
       ELSE items = Append(last.before, TodoItem(MarkerNow, FALSE))
    /\ todo_file = Some(TodoToDict(The(todo_list)))

\* check_completion has returned the failure result, and its result file
\* is written when save_to_file is on.
FailureReturned ==
    /\ returned = result
    /\ The(result).pending_items = JArr(<<MarkerNow>>)
    /\ The(call).save_to_file =>
           result_files[The(call).iteration] = Some(ResultToDict(The(result)))

\* A pending marker becomes completed only in a merge whose newly_completed
\* names it.
MarkerKept ==
    \A i \in 1..Len(items) :
        (items[i].content \in Markers /\ ~items[i].completed
             /\ The(todo_list').items[i].completed)
            => /\ pc = "merge"
               /\ items[i].content
                      \in Named(Entries(The(result).newly_completed))

\* C25: when the agent call fails or its reply is unparsable,
\* check_completion leaves every existing item as it was, appends the
\* marker as a pending item unless an item already has that content, saves
\* the store and writes the result file of the iteration (when
\* save_to_file is on); afterwards the marker stays pending through every
\* later evaluation, complete or not, unless a reply names it in
\* newly_completed.
C25_FailureMerged ==
    /\ [](Failed => /\ FailureMerge
                    /\ pc = "idle" => FailureReturned)
    /\ [][IsSome(todo_list) => MarkerKept]_vars

\* A failed call added its marker behind the two earlier items; the next
\* evaluation was complete without naming the marker, and the marker is
\* still pending.
C25_Witness ==
    /\ checks = 2
    /\ pc = "idle"
    /\ IsSome(returned)
    /\ Truthy(The(returned).is_complete)
    /\ Len(items) = 3
    /\ items[3] = TodoItem(ExecFailedMarker, FALSE)
    /\ items[1].completed

=============================================================================
